---- MODULE Spec2Model ----
(***************************************************************************)
(* Model of the cyan-skillfish GPU governor.                               *)
(*                                                                         *)
(*  - the ramp governor (src/src/main.rs): a sampler/governor thread, an   *)
(*    actuator thread and the main thread that joins them, communicating   *)
(*    over a watch channel;                                                *)
(*  - the process-aware governor (src/examples/process_aware_governor.rs   *)
(*    with src/src/governor.rs, process_monitor.rs, profile_db.rs).        *)
(*                                                                         *)
(* Time is kept as elapsed-time counters (one per Instant of the source),  *)
(* saturating at the largest duration they are ever compared with.         *)
(* target_freq (an f32 in the source) is kept in units of 1/TargetScale    *)
(* MHz, so that the 0.1 * ramp_rate drift and the `as u16` truncation are  *)
(* both represented.                                                       *)
(***************************************************************************)
EXTENDS Integers, Naturals, Sequences, FiniteSets, TLC

\* ------------------------------------------------------------------------
\* Bounds of the model
\* ------------------------------------------------------------------------
\* a sleep of the governor thread lasts 1..MaxSleepFactor sampling intervals
MaxSleepFactor == 2
\* largest timing.burst-samples value in 1..63 that is given as an input
MaxBurstOpt == 3
\* the run-length history counter saturates just above it
RunCap == MaxBurstOpt + 1

\* ------------------------------------------------------------------------
\* Helpers
\* ------------------------------------------------------------------------
Min(a, b) == IF a <= b THEN a ELSE b
Max(a, b) == IF a >= b THEN a ELSE b
AbsDiff(a, b) == IF a >= b THEN a - b ELSE b - a

RECURSIVE Pow2(_)
Pow2(n) == IF n = 0 THEN 1 ELSE 2 * Pow2(n - 1)

RECURSIVE BitAnd(_, _)
BitAnd(a, b) ==
    IF a = 0 \/ b = 0 THEN 0
    ELSE (a % 2) * (b % 2) + 2 * BitAnd(a \div 2, b \div 2)

\* ------------------------------------------------------------------------
\* Ramp governor: configuration (src/src/main.rs, main)
\* ------------------------------------------------------------------------
\* microseconds
sampling_interval == 1000
adjustment_interval == 2000
finetune_interval == 4000
\* seconds; 0 lets LogThrottle::should_log answer true every time
log_interval == 0
\* samples
window_samples == 3
\* MHz per ms
ramp_rate == 1
ramp_rate_burst == 3
\* MHz
small_change == 1
significant_change == 2
\* percent
up_thresh == 70
down_thresh == 30
\* MHz -> mV
safe_points == (2 :> 700) @@ (3 :> 850) @@ (5 :> 1000)
\* target_freq is kept in 1/TargetScale MHz
TargetScale == 10

\* timing.burst-samples as found in the configuration: Missing stands for an
\* absent, non-integer or negative option
Missing == -1
NoMask == -1
BurstSampleOptions == {Missing, 0, 64 + 1} \cup (1 .. MaxBurstOpt)

\* every elapsed-time counter saturates here
ElapsedCap == Max(Max(adjustment_interval, finetune_interval), 3000)

VARIABLES
    \* ---- ramp governor: configuration fixed at startup
    burst_samples,      \* the timing.burst-samples option
    optimize_interval,  \* the timing.intervals.optimize option
    engine_clock,       \* <<min_engine_clock, max_engine_clock>> in MHz
    min_freq, max_freq,
    \* ---- ramp governor: governor thread
    gov_pc,             \* "run" (top of loop), "sleep", "err" (returned Err)
    curr_freq,
    target_freq,        \* in 1/TargetScale MHz
    samples,            \* burst shift register (the bits the mask reads)
    stats,              \* GpuStats: [samples, active_count]
    last_adjustment,    \* elapsed time since each Instant
    last_finetune,
    last_freq_change,
    burst,              \* the `burst` local of the last tick
    adj_now,            \* the `adj_now` local of the last tick
    sent,               \* the last tick executed send.send (line 635)
    active_run,         \* history: length of the current run of active
                        \* samples, saturating at RunCap
    \* ---- watch channel
    chan,               \* [value, fresh]: fresh = a value the receiver has not seen
    last_sent,          \* history: the value of the most recent send
    unseen_sends,       \* history: sends since the last receive (saturating at 2)
    \* ---- actuator thread
    act_pc,             \* "wait", "write_vc", "write_c", "err"
    act_freq, act_vol,
    overwrote,          \* history: the last receive came after two or more sends
    pp_file,            \* [vc: last vc command <<freq, vol>>, uncommitted: BOOLEAN]
    \* ---- main thread
    main_pc             \* "join_set", "exited"

cfg_vars == <<burst_samples, optimize_interval, engine_clock, min_freq, max_freq>>
gov_vars == <<gov_pc, curr_freq, target_freq, samples, stats, last_adjustment,
              last_finetune, last_freq_change, burst, adj_now, sent, active_run>>
chan_vars == <<chan, last_sent, unseen_sends>>
act_vars == <<act_pc, act_freq, act_vol, overwrote, pp_file>>

ramp_vars == <<cfg_vars, gov_vars, chan_vars, act_vars, main_pc>>

\* state of the process-aware governor, a separate binary
VARIABLES
    pa_pc,                    \* "loop", "exited" (main returned an Err)
    load_monitor,             \* GpuLoadMonitor.samples
    process_monitor,          \* ProcessMonitor: [current_process, process_start,
                              \*   last_cycles, last_update]
    current_tracked_process,
    governor,                 \* ProcessAwareGovernor: [current_freq, mode,
                              \*   mode_start, last_change, load_history,
                              \*   learning_stats]
    db,                       \* ProcessDatabase.profiles: name -> Option<profile>
    db_file,                  \* the profiles in process_profiles.json
    pa_pp_file                \* the overclock file: [vc, uncommitted]

pa_vars == <<pa_pc, load_monitor, process_monitor, current_tracked_process,
             governor, db, db_file, pa_pp_file>>

\* the specifications of a single operation apply it to drawn arguments
VARIABLES
    last_call                 \* <<>>, or <<[args, result]>> of the call made

fn_vars == <<last_call>>

vars == <<ramp_vars, pa_vars, fn_vars>>


\* ------------------------------------------------------------------------
\* Ramp governor: startup
\* ------------------------------------------------------------------------
\* main.rs 203-227
ParseBurstSamples(opt) ==
    IF opt = Missing THEN 48
    ELSE IF opt = 0 THEN NoMask
    ELSE IF opt < 64 THEN Pow2(opt) - 1
    ELSE IF opt = 64 THEN Pow2(64) - 1
    ELSE 64

burst_mask == ParseBurstSamples(burst_samples)

optimize_enabled == optimize_interval > 0

FirstKey(m) == CHOOSE k \in DOMAIN m : \A j \in DOMAIN m : k <= j
LastKey(m) == CHOOSE k \in DOMAIN m : \A j \in DOMAIN m : k >= j

\* main.rs 503-507
StartupMinFreq(min_engine_clock) ==
    IF FirstKey(safe_points) < min_engine_clock
    THEN min_engine_clock ELSE FirstKey(safe_points)

\* variant: max_freq is the device's maximum engine clock
StartupMaxFreqOfEngine(max_engine_clock) == max_engine_clock

\* main.rs 508-512
StartupMaxFreq(max_engine_clock) ==
    IF LastKey(safe_points) > max_engine_clock
    THEN max_engine_clock ELSE LastKey(safe_points)

\* ------------------------------------------------------------------------
\* GpuStats (main.rs 19-57)
\* ------------------------------------------------------------------------
GpuStatsNew == [samples |-> <<>>, active_count |-> 0]

GpuStats_add_sampleKeepCount(st, window_size, is_active) ==
    LET evict == Len(st.samples) >= window_size /\ Len(st.samples) > 0
    IN [samples |-> Append(IF evict THEN Tail(st.samples) ELSE st.samples, is_active),
        active_count |-> IF is_active THEN st.active_count + 1 ELSE st.active_count]

\* main.rs 34-47 (and, line for line, gpu_sensor.rs 86-101) on a window of
\* capacity window_size; active_count is a u32, a decrement below 0 shows as
\* a negative count
GpuStats_add_sample(st, window_size, is_active) ==
    LET full == Len(st.samples) >= window_size
        evict == full /\ Len(st.samples) > 0
        kept == IF evict THEN Tail(st.samples) ELSE st.samples
        cnt == IF evict /\ Head(st.samples)
               THEN st.active_count - 1 ELSE st.active_count
    IN [samples |-> Append(kept, is_active),
        active_count |-> IF is_active THEN cnt + 1 ELSE cnt]

\* the governor thread's window: GpuStats::new(window_samples), main.rs 531
add_sample(st, is_active) == GpuStats_add_sample(st, window_samples, is_active)

\* main.rs 50-56: gpu_percent() as the fraction <<numerator, denominator>>
gpu_percent(st) ==
    IF Len(st.samples) = 0 THEN <<0, 1>>
    ELSE <<st.active_count * 100, Len(st.samples)>>

\* gpu_percent() compared with a threshold t (percent): the quotient
\* active_count / len * 100 is compared by cross-multiplication
PercentGT(st, t) ==
    IF Len(st.samples) = 0 THEN 0 > t
    ELSE st.active_count * 100 > t * Len(st.samples)
PercentLT(st, t) ==
    IF Len(st.samples) = 0 THEN 0 < t
    ELSE st.active_count * 100 < t * Len(st.samples)

\* ------------------------------------------------------------------------
\* Governor thread (main.rs 527-645)
\* ------------------------------------------------------------------------
\* number of bits of the 64-bit `samples` register that the burst mask reads;
\* the bits above them never influence the program and are not kept
RECURSIVE BitLen(_)
BitLen(n) == IF n <= 0 THEN 0 ELSE 1 + BitLen(n \div 2)
RegBits == BitLen(burst_mask)

\* main.rs 550-553
ShiftIn(reg, gui_busy) ==
    (2 * reg + (IF gui_busy THEN 1 ELSE 0)) % Pow2(RegBits)

\* main.rs 557-559
Burst(reg, mask) ==
    IF mask = NoMask THEN FALSE ELSE BitAnd(reg, mask) = mask

\* main.rs 562
InStableZone(st) == ~PercentLT(st, down_thresh) /\ ~PercentGT(st, up_thresh)

\* main.rs 564-567
CanOptimize(st, stable_duration) ==
    /\ optimize_enabled
    /\ InStableZone(st)
    /\ stable_duration >= optimize_interval
    /\ PercentLT(st, up_thresh - 2)

RampStep == (ramp_rate * sampling_interval * TargetScale) \div 1000
BurstStep == (ramp_rate_burst * sampling_interval * TargetScale) \div 1000
DriftStep == (ramp_rate * sampling_interval * TargetScale) \div 10000

\* variant: the load thresholds are tested before the burst
UpdateTargetLoadFirst(tgt, st, burst_now, can_optimize) ==
    IF PercentGT(st, up_thresh) THEN tgt + RampStep
    ELSE IF PercentLT(st, down_thresh) THEN tgt - RampStep
    ELSE IF burst_now THEN tgt + BurstStep
    ELSE IF can_optimize THEN tgt - DriftStep
    ELSE tgt

\* main.rs 569-582
UpdateTarget(tgt, st, burst_now, can_optimize) ==
    IF burst_now THEN tgt + BurstStep
    ELSE IF PercentGT(st, up_thresh) THEN tgt + RampStep
    ELSE IF PercentLT(st, down_thresh) THEN tgt - RampStep
    ELSE IF can_optimize THEN tgt - DriftStep
    ELSE tgt

\* variant: the clamp uses the safe-point range, not its intersection with
\* the engine-clock range
ClampTargetSafeRange(tgt) ==
    Max(FirstKey(safe_points) * TargetScale,
        Min(tgt, LastKey(safe_points) * TargetScale))

\* main.rs 585
ClampTarget(tgt) ==
    Max(min_freq * TargetScale, Min(tgt, max_freq * TargetScale))

\* main.rs 589: `as u16` truncates toward zero
AsU16(tgt) == tgt \div TargetScale

\* variant: the write condition is evaluated at every tick
AdjNowAlways(elapsed) == TRUE

\* main.rs 587
AdjNow(elapsed) == elapsed >= adjustment_interval

\* main.rs 590-597
HitBounds(cur, t16) == t16 # cur /\ (t16 = min_freq \/ t16 = max_freq)
BigChange(cur, t16) == AbsDiff(cur, t16) >= significant_change
\* variant: the fine adjustment does not wait for finetune_interval
FinetuneNoInterval(cur, t16, elapsed) == AbsDiff(cur, t16) >= small_change
Finetune(cur, t16, elapsed) ==
    elapsed >= finetune_interval /\ AbsDiff(cur, t16) >= small_change
BurstUp(cur, t16, burst_now) == burst_now /\ cur # t16

ShouldWrite(cur, t16, finetune_elapsed, burst_now) ==
    \/ HitBounds(cur, t16)
    \/ BigChange(cur, t16)
    \/ Finetune(cur, t16, finetune_elapsed)
    \/ BurstUp(cur, t16, burst_now)

\* main.rs 600-606
Direction(cur, t16) ==
    IF t16 > cur THEN "up" ELSE IF t16 < cur THEN "down" ELSE "eq"

\* variant: a send does not replace a value the receiver has not seen
ChanSendKeepUnseen(ch, v) ==
    IF ch.fresh THEN ch ELSE [value |-> v, fresh |-> TRUE]

\* watch channel: send overwrites the slot (main.rs 521, 635)
ChanSend(ch, v) == [value |-> v, fresh |-> TRUE]

Running == main_pc # "exited"

\* main.rs 585: f32::clamp panics unless min <= max
ClampDefined == min_freq <= max_freq

GovTick(gui_busy) ==
    /\ Running
    /\ gov_pc = "run"
    /\ LET st == add_sample(stats, gui_busy)
           reg == ShiftIn(samples, gui_busy)
           burst_now == Burst(reg, burst_mask)
           can_optimize == CanOptimize(st, last_freq_change)
           tgt == ClampTarget(UpdateTarget(target_freq, st, burst_now, can_optimize))
           adj == AdjNow(last_adjustment)
           t16 == AsU16(tgt)
       IN /\ stats' = st
          /\ samples' = reg
          /\ active_run' = IF gui_busy THEN Min(active_run + 1, RunCap) ELSE 0
          /\ burst' = burst_now
          /\ IF ~ClampDefined
             THEN \* the thread panics in the clamp
                  /\ gov_pc' = "err"
                  /\ UNCHANGED <<adj_now, target_freq, sent, chan_vars, curr_freq,
                                 last_finetune, last_freq_change, last_adjustment>>
             ELSE /\ gov_pc' = "sleep"
                  /\ adj_now' = adj
                  /\ target_freq' = tgt
                  /\ IF (adj \/ burst_now)
                        /\ ShouldWrite(curr_freq, t16, last_finetune, burst_now)
                     THEN /\ chan' = ChanSend(chan, t16)
                          /\ sent' = TRUE
                          /\ last_sent' = t16
                          /\ unseen_sends' = Min(unseen_sends + 1, 2)
                          /\ curr_freq' = t16
                          /\ last_finetune' = 0
                          /\ last_freq_change' = 0
                     ELSE /\ sent' = FALSE
                          /\ UNCHANGED <<chan_vars, curr_freq, last_finetune,
                                         last_freq_change>>
                  /\ last_adjustment' = IF adj \/ burst_now THEN 0 ELSE last_adjustment
    /\ UNCHANGED <<pa_vars, fn_vars>>
    /\ UNCHANGED <<cfg_vars, act_vars, main_pc>>

\* main.rs 541-543: read_mm_registers fails, the thread returns Err
GovReadFail ==
    /\ Running
    /\ gov_pc = "run"
    /\ gov_pc' = "err"
    /\ UNCHANGED <<pa_vars, fn_vars>>
    /\ UNCHANGED <<cfg_vars, curr_freq, target_freq, samples, stats,
                   last_adjustment, last_finetune, last_freq_change, burst,
                   adj_now, sent, active_run, chan_vars, act_vars, main_pc>>

Elapse(e, d) == Min(e + d, ElapsedCap)

\* main.rs 643: the sleep lasts at least sampling_interval
GovSleep(k) ==
    /\ Running
    /\ gov_pc = "sleep"
    /\ gov_pc' = "run"
    /\ last_adjustment' = Elapse(last_adjustment, k * sampling_interval)
    /\ last_finetune' = Elapse(last_finetune, k * sampling_interval)
    /\ last_freq_change' = Elapse(last_freq_change, k * sampling_interval)
    /\ UNCHANGED <<pa_vars, fn_vars>>
    /\ UNCHANGED <<cfg_vars, curr_freq, target_freq, samples, stats, burst,
                   adj_now, sent, active_run, chan_vars, act_vars, main_pc>>

\* ------------------------------------------------------------------------
\* Actuator thread (main.rs 646-659)
\* ------------------------------------------------------------------------
NoVoltage == 0
NoFreq == 0

\* variant: the voltage of the largest safe point at or below freq
LookupVoltageBelow(freq) ==
    LET below == {k \in DOMAIN safe_points : k <= freq}
    IN IF below = {} THEN NoVoltage
       ELSE safe_points[CHOOSE k \in below : \A j \in below : k >= j]

\* main.rs 649-655: safe_points.range(freq..).next()
LookupVoltage(freq) ==
    LET above == {k \in DOMAIN safe_points : k >= freq}
    IN IF above = {} THEN NoVoltage
       ELSE safe_points[CHOOSE k \in above : \A j \in above : k <= j]

\* variant: a receive does not mark the value as seen
ActRecvAgain ==
    /\ Running
    /\ act_pc = "wait"
    /\ chan.fresh
    /\ chan' = chan
    /\ unseen_sends' = 0
    /\ overwrote' = (unseen_sends >= 2)
    /\ act_freq' = chan.value
    /\ act_vol' = LookupVoltage(chan.value)
    /\ act_pc' = IF LookupVoltage(chan.value) = NoVoltage THEN "err" ELSE "write_vc"
    /\ UNCHANGED <<pa_vars, fn_vars>>
    /\ UNCHANGED <<cfg_vars, gov_vars, last_sent, pp_file, main_pc>>

\* main.rs 648-655: recv.wait() returns once an unseen value is in the slot
ActRecv ==
    /\ Running
    /\ act_pc = "wait"
    /\ chan.fresh
    /\ chan' = [chan EXCEPT !.fresh = FALSE]
    /\ unseen_sends' = 0
    /\ overwrote' = (unseen_sends >= 2)
    /\ act_freq' = chan.value
    /\ act_vol' = LookupVoltage(chan.value)
    /\ act_pc' = IF LookupVoltage(chan.value) = NoVoltage THEN "err" ELSE "write_vc"
    /\ UNCHANGED <<pa_vars, fn_vars>>
    /\ UNCHANGED <<cfg_vars, gov_vars, last_sent, pp_file, main_pc>>

\* the overclock file after the two commands of an actuation
WriteVcCommand(pf, freq, vol) == [vc |-> <<freq, vol>>, uncommitted |-> TRUE]
\* variant: the commit command does not reach the file
WriteCommitNothing(pf) == pf
WriteCommit(pf) == [pf EXCEPT !.uncommitted = FALSE]

\* main.rs 656
ActWriteVc(ok) ==
    /\ Running
    /\ act_pc = "write_vc"
    /\ IF ok
       THEN /\ pp_file' = WriteVcCommand(pp_file, act_freq, act_vol)
            /\ act_pc' = "write_c"
       ELSE /\ pp_file' = pp_file
            /\ act_pc' = "err"
    /\ UNCHANGED <<pa_vars, fn_vars>>
    /\ UNCHANGED <<cfg_vars, gov_vars, chan_vars, act_freq, act_vol, overwrote,
                   main_pc>>

\* main.rs 657
ActWriteC(ok) ==
    /\ Running
    /\ act_pc = "write_c"
    /\ IF ok
       THEN /\ pp_file' = WriteCommit(pp_file)
            /\ act_pc' = "wait"
       ELSE /\ pp_file' = pp_file
            /\ act_pc' = "err"
    \* freq and vol are locals of the loop body
    /\ act_freq' = NoFreq
    /\ act_vol' = NoVoltage
    /\ overwrote' = FALSE
    /\ UNCHANGED <<pa_vars, fn_vars>>
    /\ UNCHANGED <<cfg_vars, gov_vars, chan_vars, main_pc>>

\* ------------------------------------------------------------------------
\* Main thread (main.rs 661-663): joins the actuator thread first; an Err
\* from it makes main return, which ends the process
\* ------------------------------------------------------------------------
MainJoinSet ==
    /\ main_pc = "join_set"
    /\ act_pc = "err"
    /\ main_pc' = "exited"
    /\ UNCHANGED <<pa_vars, fn_vars>>
    /\ UNCHANGED <<cfg_vars, gov_vars, chan_vars, act_vars>>

\* ========================================================================
\* Process-aware governor (examples/process_aware_governor.rs, governor.rs,
\* process_monitor.rs, process_detection.rs, load_monitor.rs, profile_db.rs)
\*
\* One time unit is the shortest duration of a loop iteration (the 10 ms
\* sleep).  An Option is a sequence of length 0 or 1.  A load sample is
\* load_percent times SAMPLE_WINDOW_SIZE, an integer: 100 times the number of
\* active samples in the full load window.  A Vec of load samples is kept as
\* its length n and its sum, the only things the program reads of it.
\* Fields that are written and never read (FrequencyStats::time_spent and
\* last_entry, base_freq_for_reevaluation) and values that are only printed
\* (sample_count, last_display, previous_tracked_process,
\* process_start_time, current_process_usage_percent) are left out.
\* ========================================================================
\* ---- sizes and durations, scaled down from lib.rs 10-30 --------------
\* MAX_FREQ_MHZ is MIN_FREQ_MHZ + FreqSteps * FREQ_STEP_MHZ (33 steps in lib.rs)
FreqSteps == 1
\* samples (100 in lib.rs)
SAMPLE_WINDOW_SIZE == 1
\* samples (200 and 6000 in lib.rs)
LEARNING_HISTORY_SIZE == 2
SATURATION_HISTORY_SIZE == 3
\* time units (1 s, 2 s, 10 s and 120 s in lib.rs)
PROCESS_UPDATE_INTERVAL_SECS == 2
MIN_CHANGE_INTERVAL_SECS == 2
PROCESS_STABILITY_SECS == 3
LEARNING_DURATION_SECS == 4
\* a loop iteration lasts 1..MaxAdvance time units
MaxAdvance == 2
\* a scan reports at most MaxProcs processes; between two scans a cycle
\* counter advances by at most MaxCycles
MaxProcs == 2
MaxCycles == 2

\* ---- constants of lib.rs and governor.rs ------------------------------
MIN_FREQ_MHZ == 350
FREQ_STEP_MHZ == 50
MAX_FREQ_MHZ == MIN_FREQ_MHZ + FreqSteps * FREQ_STEP_MHZ
MIN_VOLTAGE_MV == 700
MAX_VOLTAGE_MV == 1000
HIGH_LOAD_THRESHOLD == 80
LOW_LOAD_THRESHOLD == 40
MIN_GPU_USAGE_PERCENT == 5
PROCESS_SWITCH_RATIO == 2
\* governor.rs 99: load_samples.len() >= 5
MinLoadSamples == 5
\* governor.rs 46: ideal_load
IdealLoad == 70
\* one cycle per time unit is CyclePercent percent of utilization
CyclePercent == 10

EXCLUDED_PROCESSES ==
    {"kwin_wayland", "kwin", "Xwayland", "ksmserver", "plasmashell", "kaccess",
     "plasma", "steam", "steamwebhelper", "Discord", "code", "electron",
     "chrome", "firefox", "chromium", "gnome-shell", "mutter", "xfwm4", "marco",
     "coolercontrol", "systemsettings"}

\* resolved process names, as sequences of path components
GameA == <<"GameA", "game">>
GameB == <<"GameB", "game">>
Kwin == <<"usr", "bin", "kwin_wayland">>
ProcNames == {GameA, GameB, Kwin}

\* A cycle counter is unbounded.  The model keeps, for each name, whether
\* last_cycles holds a value for it, and a scan gives a process's
\* total_cycles as its advance over that value: total_cycles is the recorded
\* value plus advance; a counter that is not above the recorded value has the
\* advance 0, which is what saturating_sub makes of it.
GpuProcesses == [name : ProcNames, advance : 0 .. MaxCycles]
RECURSIVE SeqsUpTo(_, _)
SeqsUpTo(S, n) ==
    IF n = 0 THEN {<<>>}
    ELSE LET shorter == SeqsUpTo(S, n - 1)
         IN shorter \cup {Append(q, x) : q \in {r \in shorter : Len(r) = n - 1}, x \in S}
\* what collect_gpu_processes can return
Scans == SeqsUpTo(GpuProcesses, MaxProcs)
\* process_detection.rs: a process is listed only with total_cycles > 0, so
\* the counter of a name without a recorded value is above 0
ScanPossible(scan, recorded) ==
    \A i \in 1 .. Len(scan) :
        scan[i].advance = 0 =>
            \/ scan[i].name \in recorded
            \/ \E j \in 1 .. i - 1 : scan[j].name = scan[i].name

\* profile files found at startup
StoredProfile == [optimal_freq |-> MAX_FREQ_MHZ]
NoProfiles == [n \in ProcNames |-> <<>>]
InitialFiles == {NoProfiles, [NoProfiles EXCEPT ![GameB] = <<StoredProfile>>]}

\* ---- load_monitor.rs ---------------------------------------------------
\* load_monitor.rs 17-22
GpuLoadMonitor_add_sample(lm, capacity, is_active) ==
    Append(IF Len(lm) >= capacity /\ Len(lm) > 0 THEN Tail(lm) ELSE lm,
           is_active)
\* the loop's window: GpuLoadMonitor::new(SAMPLE_WINDOW_SIZE)
lm_add_sample(lm, is_active) ==
    GpuLoadMonitor_add_sample(lm, SAMPLE_WINDOW_SIZE, is_active)
load_percentOfCapacity(lm, capacity) ==
    <<100 * Cardinality({i \in 1 .. Len(lm) : lm[i]}), capacity>>
\* load_monitor.rs 24-30: load_percent() as the fraction
\* <<numerator, denominator>>, the active samples recounted
load_percent(lm, capacity) ==
    IF Len(lm) = 0 THEN <<0, 1>>
    ELSE <<100 * Cardinality({i \in 1 .. Len(lm) : lm[i]}), Len(lm)>>
\* load_monitor.rs 32-34
is_full(lm, capacity) == Len(lm) >= capacity
\* load_monitor.rs 24-30, as a number of active samples
lm_load(lm) == 100 * Cardinality({i \in 1 .. Len(lm) : lm[i]})
\* load_monitor.rs 32-34
lm_is_full(lm) == Len(lm) >= SAMPLE_WINDOW_SIZE

\* ---- process_detection.rs ---------------------------------------------
\* process_detection.rs 38-50
Basename(name) == name[Len(name)]
is_excluded_process(name) == Basename(name) \in EXCLUDED_PROCESSES

\* ---- process_monitor.rs -----------------------------------------------
NoInstant == -1
ProcessMonitorNew ==
    [current_process |-> <<>>, process_start |-> NoInstant,
     last_cycles |-> {}, last_update |-> 0]

\* process_monitor.rs 46-63 on the totals collect_gpu_processes reports:
\* last_cycles maps a name to <<>> or <<total>>, processes are taken in the
\* order of the scan, and saturating_sub stops at 0
RECURSIVE CycleDeltas(_, _)
CycleDeltas(processes, last_cycles) ==
    IF processes = <<>> THEN [deltas |-> <<>>, last_cycles |-> last_cycles]
    ELSE LET proc == Head(processes)
             last == IF last_cycles[proc.name] = <<>> THEN 0
                     ELSE last_cycles[proc.name][1]
             delta == Max(0, proc.total_cycles - last)
             rest == CycleDeltas(Tail(processes),
                         [last_cycles EXCEPT ![proc.name] = <<proc.total_cycles>>])
         IN [deltas |-> <<[name |-> proc.name, delta |-> delta]>> \o rest.deltas,
             last_cycles |-> rest.last_cycles]

\* process_monitor.rs 46-63 with each process given as the delta line 48
\* computes for it (advance): the deltas and the names in last_cycles
ScanDeltas(scan, last_cycles) ==
    [deltas |-> [i \in 1 .. Len(scan) |->
                    [name |-> scan[i].name, delta |-> scan[i].advance]],
     last_cycles |-> last_cycles \cup {scan[i].name : i \in 1 .. Len(scan)}]

\* process_monitor.rs 52-58, 69: usage_percent >= MIN_GPU_USAGE_PERCENT
UsageAtLeastMin(delta, elapsed) ==
    delta * CyclePercent >= MIN_GPU_USAGE_PERCENT * elapsed

\* variant: the name of the process is not looked at
IsActiveProcessAnyName(d, elapsed) == UsageAtLeastMin(d.delta, elapsed)
\* process_monitor.rs 66-71
IsActiveProcess(d, elapsed) ==
    UsageAtLeastMin(d.delta, elapsed) /\ ~is_excluded_process(d.name)

\* process_monitor.rs 88-90: max_by keeps the last of the maximal elements
DominantIndex(active) ==
    CHOOSE i \in 1 .. Len(active) :
        \A j \in 1 .. Len(active) :
            \/ active[i].delta > active[j].delta
            \/ (active[i].delta = active[j].delta /\ i >= j)

\* process_monitor.rs 97-101
CurrentDelta(deltas, current) ==
    LET hits == {i \in 1 .. Len(deltas) : deltas[i].name = current}
    IN IF hits = {} THEN 0
       ELSE deltas[CHOOSE i \in hits : \A j \in hits : i <= j].delta

\* variant: any other dominant process takes over
SwitchConditionAlways(dominant_delta, current_delta, elapsed) == TRUE
\* process_monitor.rs 119-120, usages being delta * CyclePercent / elapsed
SwitchCondition(dominant_delta, current_delta, elapsed) ==
    \/ current_delta = 0
    \/ IF current_delta * CyclePercent * 10 >= elapsed
       THEN dominant_delta >= PROCESS_SWITCH_RATIO * current_delta
       ELSE dominant_delta * CyclePercent * 10 >= PROCESS_SWITCH_RATIO * elapsed

\* process_monitor.rs 28-141; scan is what collect_gpu_processes returns
pm_update(pm, scan) ==
    IF pm.last_update < PROCESS_UPDATE_INTERVAL_SECS
    THEN [pm |-> pm, ret |-> pm.current_process]
    ELSE
    LET elapsed == pm.last_update
        pm0 == [pm EXCEPT !.last_update = 0]
    IN IF Len(scan) = 0
       THEN [pm |-> [pm0 EXCEPT !.current_process = <<>>, !.process_start = NoInstant],
             ret |-> <<>>]
       ELSE
       LET sd == ScanDeltas(scan, pm.last_cycles)
           pm1 == [pm0 EXCEPT !.last_cycles = sd.last_cycles]
           active == SelectSeq(sd.deltas, LAMBDA d : IsActiveProcess(d, elapsed))
       IN IF Len(active) = 0
          THEN [pm |-> [pm1 EXCEPT !.current_process = <<>>,
                                   !.process_start =
                                       IF pm.current_process # <<>>
                                       THEN NoInstant ELSE pm.process_start],
                ret |-> <<>>]
          ELSE
          LET dominant == active[DominantIndex(active)]
              should_change ==
                  IF pm.current_process # <<>>
                  THEN IF pm.current_process[1] # dominant.name
                       THEN SwitchCondition(dominant.delta,
                                CurrentDelta(sd.deltas, pm.current_process[1]), elapsed)
                       ELSE FALSE
                  ELSE TRUE
          IN IF should_change
             THEN [pm |-> [pm1 EXCEPT !.current_process = <<dominant.name>>,
                                      !.process_start = 0],
                   ret |-> <<dominant.name>>]
             ELSE [pm |-> pm1, ret |-> pm1.current_process]

\* process_monitor.rs 143-147
is_process_stable(pm) ==
    pm.process_start # NoInstant /\ pm.process_start >= PROCESS_STABILITY_SECS

\* ---- profile_db.rs -----------------------------------------------------
\* profile_db.rs 19-27
ProcessProfileNew(name, freq, comfort, count) ==
    [name |-> name, optimal_freq |-> freq, comfort_score |-> comfort,
     samples_count |-> count]
\* profile_db.rs 71: the value kept under profile.name, the fields of the
\* profile other than the key
ProfileValue(profile) == [f \in DOMAIN profile \ {"name"} |-> profile[f]]
\* variant: no profile is ever found
db_getNothing(profiles, name) == <<>>
\* profile_db.rs 63-65
db_get(profiles, name) == profiles[name]
\* variant: a profile already in the map is kept
db_setIfAbsent(profiles, profile) ==
    IF profiles[profile.name] = <<>>
    THEN [profiles EXCEPT ![profile.name] = <<ProfileValue(profile)>>]
    ELSE profiles
\* profile_db.rs 67-72: the map after set
db_set(profiles, profile) ==
    [profiles EXCEPT ![profile.name] = <<ProfileValue(profile)>>]
\* profile_db.rs 57-61: the file after save; a failed write is ignored
db_save(file, profiles, write_ok) == IF write_ok THEN profiles ELSE file
\* variant: the file is not read
db_loadNothing(file) == NoProfiles
\* profile_db.rs 31-55: new and load
db_load(file) == file

\* ---- governor.rs: FrequencyStats, LearningStats ------------------------
Abs(x) == IF x >= 0 THEN x ELSE 0 - x
RECURSIVE Gcd(_, _)
Gcd(a, b) == IF b = 0 THEN a ELSE Gcd(b, a % b)
\* a value num / den, in lowest terms
Reduced(num, den) == <<num \div Gcd(num, den), den \div Gcd(num, den)>>
\* governor.rs 15-21
FrequencyStatsNew == [n |-> 0, sum |-> 0]
\* governor.rs 33-35
fs_add_load_sample(stat, load) == [n |-> stat.n + 1, sum |-> stat.sum + load]
\* governor.rs 44-49: comfort_score as <<numerator, denominator>>;
\* average_load is sum / (n * SAMPLE_WINDOW_SIZE) percent, 0 when n = 0
comfort_score(stat) ==
    IF stat.n = 0 THEN <<100 - IdealLoad, 1>>
    ELSE LET den == stat.n * SAMPLE_WINDOW_SIZE
         IN Reduced(Max(100 * den - Abs(stat.sum - IdealLoad * den), 0), den)
ScoreLess(a, b) == a[1] * b[2] < b[1] * a[2]
ScoreEq(a, b) == a[1] * b[2] = b[1] * a[2]

FreqGrid ==
    {f \in MIN_FREQ_MHZ .. MAX_FREQ_MHZ : (f - MIN_FREQ_MHZ) % FREQ_STEP_MHZ = 0}
\* governor.rs 59-71
LearningStatsNew ==
    [stats |-> [f \in FreqGrid |-> FrequencyStatsNew], current_freq |-> NoFreq]
\* governor.rs 73-86
ls_set_frequency(ls, freq, load) ==
    [stats |-> IF freq \in DOMAIN ls.stats
               THEN [ls.stats EXCEPT ![freq] = fs_add_load_sample(@, load)]
               ELSE ls.stats,
     current_freq |-> freq]
\* governor.rs 88-94
ls_add_load_sample(ls, load) ==
    IF ls.current_freq # NoFreq /\ ls.current_freq \in DOMAIN ls.stats
    THEN [ls EXCEPT !.stats[ls.current_freq] = fs_add_load_sample(@, load)]
    ELSE ls
\* variant: every frequency of the map qualifies
QualifiesAlways(stat) == TRUE
\* governor.rs 99: the filter of get_best_frequency
Qualifies(stat) == stat.n >= MinLoadSamples
\* governor.rs 96-102: max_by over the map in ascending frequency keeps the
\* last of the maximal elements
get_best_frequency(ls) ==
    LET ok == {f \in DOMAIN ls.stats : Qualifies(ls.stats[f])}
    IN IF ok = {} THEN <<>>
       ELSE LET best == CHOOSE f \in ok : \A g \in ok :
                           \/ ScoreLess(comfort_score(ls.stats[g]), comfort_score(ls.stats[f]))
                           \/ /\ ScoreEq(comfort_score(ls.stats[g]), comfort_score(ls.stats[f]))
                              /\ f >= g
            IN <<[freq |-> best, comfort |-> comfort_score(ls.stats[best]),
                  samples |-> ls.stats[best].n]>>

\* ---- governor.rs: ProcessAwareGovernor ---------------------------------
\* governor.rs 125-135
GovernorNew ==
    [current_freq |-> MIN_FREQ_MHZ, mode |-> "Idle", mode_start |-> 0,
     last_change |-> 0, load_history |-> <<>>, learning_stats |-> <<>>]
\* governor.rs 137-144
start_learning(g, starting_freq) ==
    [g EXCEPT !.mode = "Learning", !.mode_start = 0, !.current_freq = starting_freq,
              !.learning_stats = <<LearningStatsNew>>, !.load_history = <<>>]
\* governor.rs 146-161
start_reevaluation(g, base_freq) ==
    [g EXCEPT !.mode = "Reevaluating", !.mode_start = 0, !.current_freq = base_freq,
              !.learning_stats = <<LearningStatsNew>>, !.load_history = <<>>]
\* variant: the learning statistics are kept
apply_known_frequencyKeepStats(g, freq) ==
    [g EXCEPT !.mode = "Applied", !.mode_start = 0, !.current_freq = freq,
              !.load_history = <<>>]
\* governor.rs 163-170
apply_known_frequency(g, freq) ==
    [g EXCEPT !.mode = "Applied", !.mode_start = 0, !.current_freq = freq,
              !.learning_stats = <<>>, !.load_history = <<>>]
\* variant: the frequency is left as it was
enter_idleKeepFreq(g) ==
    [g EXCEPT !.mode = "Idle", !.mode_start = 0,
              !.learning_stats = <<>>, !.load_history = <<>>]
\* governor.rs 172-178
enter_idle(g) ==
    [g EXCEPT !.mode = "Idle", !.mode_start = 0, !.current_freq = MIN_FREQ_MHZ,
              !.learning_stats = <<>>, !.load_history = <<>>]
\* governor.rs 180-189
gov_add_load_sample(g, load) ==
    LET h == IF Len(g.load_history) >= SATURATION_HISTORY_SIZE
             THEN Tail(g.load_history) ELSE g.load_history
    IN [g EXCEPT !.load_history = Append(h, load),
                 !.learning_stats =
                     IF g.learning_stats # <<>>
                     THEN <<ls_add_load_sample(g.learning_stats[1], load)>>
                     ELSE <<>>]
RECURSIVE SumSeq(_)
SumSeq(q) == IF Len(q) = 0 THEN 0 ELSE Head(q) + SumSeq(Tail(q))
\* governor.rs 191-196: average_load() >= t and <= t, t in percent
AverageLoadGE(g, t) ==
    IF Len(g.load_history) = 0 THEN 0 >= t
    ELSE SumSeq(g.load_history) >= t * Len(g.load_history) * SAMPLE_WINDOW_SIZE
AverageLoadLE(g, t) ==
    IF Len(g.load_history) = 0 THEN 0 <= t
    ELSE SumSeq(g.load_history) <= t * Len(g.load_history) * SAMPLE_WINDOW_SIZE
RequiredSamples(g) ==
    IF g.mode \in {"Learning", "Reevaluating"}
    THEN LEARNING_HISTORY_SIZE ELSE SATURATION_HISTORY_SIZE
\* governor.rs 198-207
should_increase(g) ==
    /\ g.current_freq < MAX_FREQ_MHZ
    /\ Len(g.load_history) >= RequiredSamples(g)
    /\ AverageLoadGE(g, HIGH_LOAD_THRESHOLD)
\* governor.rs 209-218
should_decrease(g) ==
    /\ g.current_freq > MIN_FREQ_MHZ
    /\ Len(g.load_history) >= RequiredSamples(g)
    /\ AverageLoadLE(g, LOW_LOAD_THRESHOLD)
\* variant: a step of half FREQ_STEP_MHZ
try_adjust_learningHalfStep(g) ==
    IF g.last_change < MIN_CHANGE_INTERVAL_SECS THEN [g |-> g, ret |-> <<>>]
    ELSE IF ~should_increase(g) /\ ~should_decrease(g) THEN [g |-> g, ret |-> <<>>]
    ELSE LET new_freq ==
                 IF should_increase(g)
                 THEN Min(g.current_freq + FREQ_STEP_MHZ \div 2, MAX_FREQ_MHZ)
                 ELSE Max(g.current_freq - FREQ_STEP_MHZ \div 2, MIN_FREQ_MHZ)
         IN [g |-> [g EXCEPT !.current_freq = new_freq, !.last_change = 0,
                             !.load_history = <<>>],
             ret |-> <<new_freq>>]
\* variant: the load history is kept across a step
try_adjust_learningKeepHistory(g) ==
    IF g.last_change < MIN_CHANGE_INTERVAL_SECS THEN [g |-> g, ret |-> <<>>]
    ELSE IF ~should_increase(g) /\ ~should_decrease(g) THEN [g |-> g, ret |-> <<>>]
    ELSE LET new_freq ==
                 IF should_increase(g)
                 THEN Min(g.current_freq + FREQ_STEP_MHZ, MAX_FREQ_MHZ)
                 ELSE Max(g.current_freq - FREQ_STEP_MHZ, MIN_FREQ_MHZ)
         IN IF new_freq # g.current_freq
            THEN [g |-> [g EXCEPT !.current_freq = new_freq, !.last_change = 0],
                  ret |-> <<new_freq>>]
            ELSE [g |-> g, ret |-> <<>>]
\* governor.rs 220-243: the governor after the call and the returned Option
try_adjust_learning(g) ==
    IF g.last_change < MIN_CHANGE_INTERVAL_SECS THEN [g |-> g, ret |-> <<>>]
    ELSE IF ~should_increase(g) /\ ~should_decrease(g) THEN [g |-> g, ret |-> <<>>]
    ELSE LET new_freq ==
                 IF should_increase(g)
                 THEN Min(g.current_freq + FREQ_STEP_MHZ, MAX_FREQ_MHZ)
                 ELSE Max(IF g.current_freq >= FREQ_STEP_MHZ
                          THEN g.current_freq - FREQ_STEP_MHZ ELSE 0,
                          MIN_FREQ_MHZ)
         IN IF new_freq # g.current_freq
            THEN [g |-> [g EXCEPT !.current_freq = new_freq, !.last_change = 0,
                                  !.load_history = <<>>],
                  ret |-> <<new_freq>>]
            ELSE [g |-> g, ret |-> <<>>]
\* governor.rs 245-260: the profile, with the name left empty
finalize_learning(g) ==
    IF g.learning_stats = <<>> THEN <<>>
    ELSE LET best == get_best_frequency(g.learning_stats[1])
         IN IF best = <<>> THEN <<>>
            ELSE <<ProcessProfileNew(<<>>, best[1].freq, best[1].comfort,
                                     best[1].samples)>>
\* variant: the length of the history is not looked at
check_saturationAnyLength(g) ==
    /\ g.mode = "Applied"
    /\ ~AverageLoadLE(g, HIGH_LOAD_THRESHOLD)
\* governor.rs 262-267
check_saturation(g) ==
    /\ g.mode = "Applied"
    /\ Len(g.load_history) >= SATURATION_HISTORY_SIZE
    /\ ~AverageLoadLE(g, HIGH_LOAD_THRESHOLD)
\* governor.rs 269-274
check_underload(g) ==
    /\ g.mode = "Applied"
    /\ Len(g.load_history) >= SATURATION_HISTORY_SIZE
    /\ ~AverageLoadGE(g, LOW_LOAD_THRESHOLD)

\* ---- examples/process_aware_governor.rs --------------------------------
\* process_aware_governor.rs 17-30
interpolate_voltage(freq) ==
    IF freq <= MIN_FREQ_MHZ THEN MIN_VOLTAGE_MV
    ELSE IF freq >= MAX_FREQ_MHZ THEN MAX_VOLTAGE_MV
    ELSE MIN_VOLTAGE_MV
         + ((freq - MIN_FREQ_MHZ) * (MAX_VOLTAGE_MV - MIN_VOLTAGE_MV))
           \div (MAX_FREQ_MHZ - MIN_FREQ_MHZ)

\* no write of this iteration fails
NoFail == [call |-> 0, at |-> "vc"]

\* The state of main while an iteration runs: the program's objects, the
\* number of set_gpu_frequency calls made so far, and whether a `?` has
\* already made main return.
\* process_aware_governor.rs 32-38: the fail.call-th call of the iteration
\* fails at its first write ("vc") or at its second ("c")
set_gpu_frequency(S, freq, fail) ==
    IF S.failed THEN S
    ELSE LET k == S.calls + 1
             written == [vc |-> <<freq, interpolate_voltage(freq)>>,
                         uncommitted |-> TRUE]
         IN IF fail.call = k
            THEN [S EXCEPT !.calls = k, !.failed = TRUE,
                           !.pp = IF fail.at = "vc" THEN S.pp ELSE written]
            ELSE [S EXCEPT !.calls = k,
                           !.pp = [written EXCEPT !.uncommitted = FALSE]]

\* Of a stored profile the loop reads optimal_freq and nothing else:
\* comfort_score and samples_count are printed and serialized.  The store of
\* the loop keeps optimal_freq under the name; whole profiles are set and
\* read back in SpecStore.
ReadByLoop(profile) ==
    [name |-> profile.name, optimal_freq |-> profile.optimal_freq]

\* profile_db.rs 67-72 on the state of main: insert, then save
DbSet(S, profile, write_ok) ==
    LET profiles == db_set(S.db, ReadByLoop(profile))
    IN [S EXCEPT !.db = profiles, !.sets = S.sets + 1,
                 !.file = db_save(S.file, profiles, write_ok)]

\* variant: an interrupted learning is dropped
SaveInterruptedNever(S, write_ok) == S
\* process_aware_governor.rs 133-148: the interrupted learning is saved
SaveInterrupted(S, write_ok) ==
    IF /\ S.gov.mode \in {"Learning", "Reevaluating"}
       /\ S.tracked # <<>>
       /\ finalize_learning(S.gov) # <<>>
    THEN DbSet(S, [finalize_learning(S.gov)[1] EXCEPT !.name = S.tracked[1]],
               write_ok)
    ELSE S

\* process_aware_governor.rs 150-170: load the profile or start learning
LoadOrLearn(S, new_process, fail) ==
    LET found == db_get(S.db, new_process)
        S1 == IF found # <<>>
              THEN set_gpu_frequency(
                       [S EXCEPT !.gov = apply_known_frequency(@, found[1].optimal_freq)],
                       found[1].optimal_freq, fail)
              ELSE set_gpu_frequency(
                       [S EXCEPT !.gov = start_learning(@, MIN_FREQ_MHZ)],
                       MIN_FREQ_MHZ, fail)
    IN IF S1.failed THEN S1 ELSE [S1 EXCEPT !.tracked = <<new_process>>]

\* variant: the interrupted learning is saved on the way to Idle too
ProcessChangeSaveOnIdle(S, detected, fail, write_ok) ==
    IF detected = S.tracked THEN S
    ELSE IF detected # <<>>
    THEN LoadOrLearn(SaveInterrupted(S, write_ok), detected[1], fail)
    ELSE IF S.tracked # <<>>
    THEN LET S0 == SaveInterrupted(S, write_ok)
             S1 == set_gpu_frequency([S0 EXCEPT !.gov = enter_idle(@)],
                                     MIN_FREQ_MHZ, fail)
         IN IF S1.failed THEN S1 ELSE [S1 EXCEPT !.tracked = <<>>]
    ELSE S
\* process_aware_governor.rs 125-182
ProcessChange(S, detected, fail, write_ok) ==
    IF detected = S.tracked THEN S
    ELSE IF detected # <<>>
    THEN LoadOrLearn(SaveInterrupted(S, write_ok), detected[1], fail)
    ELSE IF S.tracked # <<>>
    THEN LET S1 == set_gpu_frequency([S EXCEPT !.gov = enter_idle(@)],
                                     MIN_FREQ_MHZ, fail)
         IN IF S1.failed THEN S1 ELSE [S1 EXCEPT !.tracked = <<>>]
    ELSE S

\* variant: the load sample goes to the history only, not to the statistics
RecordLoadHistoryOnly(S) ==
    [S EXCEPT !.gov.load_history =
        gov_add_load_sample(S.gov, lm_load(S.lm)).load_history]
\* process_aware_governor.rs 185-191
RecordLoad(S) ==
    LET load == lm_load(S.lm)
        g == gov_add_load_sample(S.gov, load)
    IN [S EXCEPT !.gov =
            IF g.learning_stats # <<>>
            THEN [g EXCEPT !.learning_stats =
                               <<ls_set_frequency(g.learning_stats[1], g.current_freq, load)>>]
            ELSE g]

\* process_aware_governor.rs 197-232
AppliedBranch(S) ==
    IF /\ \/ check_saturation(S.gov) /\ is_process_stable(S.pm)
          \/ check_underload(S.gov) /\ is_process_stable(S.pm)
       /\ S.tracked # <<>>
       /\ db_get(S.db, S.tracked[1]) # <<>>
    THEN [S EXCEPT !.gov = start_reevaluation(@, db_get(S.db, S.tracked[1])[1].optimal_freq)]
    ELSE S

\* variant: the adjusted frequency is not written to the overclock file
AdjustLearningNoWrite(S, fail) == [S EXCEPT !.gov = try_adjust_learning(S.gov).g]
\* process_aware_governor.rs 235-252
AdjustLearning(S, fail) ==
    LET r == try_adjust_learning(S.gov)
    IN IF r.ret # <<>>
       THEN set_gpu_frequency([S EXCEPT !.gov = r.g], r.ret[1], fail)
       ELSE [S EXCEPT !.gov = r.g]

\* process_aware_governor.rs 255-256
learning_done(g) == g.mode_start >= LEARNING_DURATION_SECS

\* variant: the finalization does not wait for the learning window
FinalizeDueNoWindow(S) == is_process_stable(S.pm)
\* process_aware_governor.rs 258
FinalizeDue(S) == learning_done(S.gov) /\ is_process_stable(S.pm)

\* variant: the frequency in use when the window ends is applied
FinalizeApplyCurrent(S, fail, write_ok) ==
    IF S.failed THEN S
    ELSE IF /\ FinalizeDue(S)
            /\ S.tracked # <<>>
            /\ finalize_learning(S.gov) # <<>>
    THEN LET profile == [finalize_learning(S.gov)[1] EXCEPT !.name = S.tracked[1]]
             S1 == DbSet(S, profile, write_ok)
         IN set_gpu_frequency(
                [S1 EXCEPT !.gov = apply_known_frequency(@, S.gov.current_freq)],
                S.gov.current_freq, fail)
    ELSE S
\* process_aware_governor.rs 258-273
Finalize(S, fail, write_ok) ==
    IF S.failed THEN S
    ELSE IF /\ FinalizeDue(S)
            /\ S.tracked # <<>>
            /\ finalize_learning(S.gov) # <<>>
    THEN LET profile == [finalize_learning(S.gov)[1] EXCEPT !.name = S.tracked[1]]
             S1 == DbSet(S, profile, write_ok)
         IN set_gpu_frequency(
                [S1 EXCEPT !.gov = apply_known_frequency(@, profile.optimal_freq)],
                profile.optimal_freq, fail)
    ELSE S

\* process_aware_governor.rs 184-276
FullWindow(S, fail, write_ok) ==
    IF S.failed \/ ~lm_is_full(S.lm) THEN S
    ELSE LET S1 == RecordLoad(S)
         IN IF S1.gov.mode = "Applied" THEN AppliedBranch(S1)
            ELSE IF S1.gov.mode \in {"Learning", "Reevaluating"}
            THEN Finalize(AdjustLearning(S1, fail), fail, write_ok)
            ELSE S1

\* process_aware_governor.rs 111-276: one iteration of the loop, from the
\* register read to the display
Iteration(is_active, scan, fail, write_ok) ==
    LET u == pm_update(process_monitor, scan)
        S0 == [lm |-> lm_add_sample(load_monitor, is_active), pm |-> u.pm,
               tracked |-> current_tracked_process, gov |-> governor,
               db |-> db, file |-> db_file, pp |-> pa_pp_file,
               calls |-> 0, sets |-> 0, failed |-> FALSE]
    IN FullWindow(ProcessChange(S0, u.ret, fail, write_ok), fail, write_ok)

\* the Instants of the program, as the time elapsed since each
Later(pm, d) ==
    [pm EXCEPT !.last_update = @ + d,
               !.process_start = IF @ = NoInstant THEN NoInstant
                                 ELSE Min(@ + d, PROCESS_STABILITY_SECS)]
GovLater(g, d) ==
    [g EXCEPT !.mode_start = Min(@ + d, LEARNING_DURATION_SECS),
              !.last_change = Min(@ + d, MIN_CHANGE_INTERVAL_SECS)]

Commit(S) ==
    /\ load_monitor' = S.lm
    /\ current_tracked_process' = S.tracked
    /\ db' = S.db
    /\ db_file' = S.file
    /\ pa_pp_file' = S.pp

\* collect_gpu_processes is called only when the update interval has passed
ScansNow(scans) ==
    IF process_monitor.last_update >= PROCESS_UPDATE_INTERVAL_SECS
    THEN {scan \in scans : ScanPossible(scan, process_monitor.last_cycles)}
    ELSE {<<>>}

\* a profile is written only when a learning phase is finalized
WriteOutcomes ==
    IF governor.mode \in {"Learning", "Reevaluating"} THEN BOOLEAN ELSE {TRUE}

\* process_aware_governor.rs 111-309: an iteration in which every write to
\* the overclock file succeeds, then the sleep; the iteration lasts
\* 1..MaxAdvance time units
TickBody(is_active, scan, write_ok) ==
    /\ pa_pc = "loop"
    /\ \E S \in {Iteration(is_active, scan, NoFail, write_ok)} :
          /\ write_ok \/ S.sets > 0
          /\ Commit(S)
          /\ \E d \in 1 .. MaxAdvance :
                /\ process_monitor' = Later(S.pm, d)
                /\ governor' = GovLater(S.gov, d)
    /\ pa_pc' = "loop"
    /\ UNCHANGED ramp_vars

PATick(is_active, scan, write_ok) ==
    /\ TickBody(is_active, scan, write_ok)
    /\ UNCHANGED fn_vars

\* an iteration in which one of its set_gpu_frequency calls fails at the
\* first or at the second write: main returns
WriteFailBody(is_active, scan, write_ok) ==
    /\ pa_pc = "loop"
    /\ \E S0 \in {Iteration(is_active, scan, NoFail, write_ok)} :
          /\ write_ok \/ S0.sets > 0
          /\ \E k \in 1 .. S0.calls, at \in {"vc", "c"} :
                \E S \in {Iteration(is_active, scan, [call |-> k, at |-> at], write_ok)} :
                   /\ Commit(S)
                   /\ process_monitor' = S.pm
                   /\ governor' = S.gov
    /\ pa_pc' = "exited"
    /\ UNCHANGED ramp_vars

PAWriteFail(is_active, scan, write_ok) ==
    /\ WriteFailBody(is_active, scan, write_ok)
    /\ UNCHANGED fn_vars

\* what the iteration got from the process monitor: the scan that
\* collect_gpu_processes returned, the time since the previous scan, the
\* process tracked before and the value of update()
Observed(scan) ==
    <<[args |-> [scan |-> scan, elapsed |-> process_monitor.last_update,
                 tracked |-> current_tracked_process,
                 mode |-> governor.mode],
       result |-> pm_update(process_monitor, scan).ret]>>

\* the same iterations, with what they observed
PAScanTick(is_active, scan, write_ok) ==
    /\ TickBody(is_active, scan, write_ok)
    /\ last_call' = Observed(scan)

PAScanWriteFail(is_active, scan, write_ok) ==
    /\ WriteFailBody(is_active, scan, write_ok)
    /\ last_call' = Observed(scan)

\* process_aware_governor.rs 113-115: read_mm_registers fails, main returns
PAReadFail ==
    /\ pa_pc = "loop"
    /\ pa_pc' = "exited"
    /\ UNCHANGED <<load_monitor, process_monitor, current_tracked_process,
                   governor, db, db_file, pa_pp_file>>
    /\ UNCHANGED <<ramp_vars, fn_vars>>

\* process_aware_governor.rs 79-109: main up to the loop, with the profile
\* file as it is on disk
Startup(file) ==
    /\ pa_pc = "loop"
    /\ load_monitor = <<>>
    /\ process_monitor = ProcessMonitorNew
    /\ current_tracked_process = <<>>
    /\ governor = GovernorNew
    /\ db = db_load(file)
    /\ db_file = file
    /\ pa_pp_file = [vc |-> <<MIN_FREQ_MHZ, interpolate_voltage(MIN_FREQ_MHZ)>>,
                     uncommitted |-> FALSE]

\* the program is started again after it has exited
PARestart ==
    /\ pa_pc = "exited"
    /\ pa_pc' = "loop"
    /\ load_monitor' = <<>>
    /\ process_monitor' = ProcessMonitorNew
    /\ current_tracked_process' = <<>>
    /\ governor' = GovernorNew
    /\ db' = db_load(db_file)
    /\ pa_pp_file' = [vc |-> <<MIN_FREQ_MHZ, interpolate_voltage(MIN_FREQ_MHZ)>>,
                      uncommitted |-> FALSE]
    /\ UNCHANGED db_file
    /\ UNCHANGED <<ramp_vars, fn_vars>>

\* no single operation is under test
FnOff == last_call = <<>>

\* the process-aware governor is not running
PAOff ==
    /\ pa_pc = "off"
    /\ load_monitor = <<>>
    /\ process_monitor = ProcessMonitorNew
    /\ current_tracked_process = <<>>
    /\ governor = GovernorNew
    /\ db = NoProfiles
    /\ db_file = NoProfiles
    /\ pa_pp_file = [vc |-> <<>>, uncommitted |-> FALSE]

\* ------------------------------------------------------------------------
\* Ramp governor: specification
\* ------------------------------------------------------------------------
\* cfgs: a set of <<burst-samples, optimize interval, engine clocks>>
RampInitWith(cfgs) ==
    /\ \E c \in cfgs :
          /\ burst_samples = c[1]
          /\ optimize_interval = c[2]
          /\ engine_clock = c[3]
    /\ min_freq = StartupMinFreq(engine_clock[1])
    /\ max_freq = StartupMaxFreq(engine_clock[2])
    /\ gov_pc = "run"
    /\ curr_freq = min_freq
    /\ target_freq = min_freq * TargetScale
    /\ samples = 0
    /\ stats = GpuStatsNew
    /\ last_adjustment = 0
    /\ last_finetune = 0
    /\ last_freq_change = 0
    /\ burst = FALSE
    /\ adj_now = FALSE
    /\ sent = FALSE
    /\ active_run = 0
    /\ chan = [value |-> min_freq, fresh |-> FALSE]
    /\ last_sent = min_freq
    /\ unseen_sends = 0
    /\ act_pc = "wait"
    /\ act_freq = NoFreq
    /\ act_vol = NoVoltage
    /\ overwrote = FALSE
    /\ pp_file = [vc |-> <<>>, uncommitted |-> FALSE]
    /\ main_pc = "join_set"
    /\ PAOff
    /\ FnOff

RampConfigs == {<<2, 3000, <<1, 7>>>>, <<0, 0, <<3, 4>>>>}
RampInit == RampInitWith(RampConfigs)

RampNext ==
    \/ \E b \in BOOLEAN : GovTick(b)
    \/ GovReadFail
    \/ \E k \in 1 .. MaxSleepFactor : GovSleep(k)
    \/ ActRecv
    \/ \E ok \in BOOLEAN : ActWriteVc(ok)
    \/ \E ok \in BOOLEAN : ActWriteC(ok)
    \/ MainJoinSet

SpecRamp == RampInit /\ [][RampNext]_vars

\* every burst-samples option, the other options fixed
BurstInit == RampInitWith(BurstSampleOptions \X {0} \X {<<3, 4>>})
SpecBurst == BurstInit /\ [][RampNext]_vars

\* one configuration: burst disabled, no drift, the whole safe-point range
ChanInit == RampInitWith({<<0, 0, <<1, 7>>>>})
SpecChan == ChanInit /\ [][RampNext]_vars

\* the scheduler lets every thread that can take a step take one; a failing
\* register read or file write is never forced
GovStep == (\E b \in BOOLEAN : GovTick(b)) \/ (\E k \in 1 .. MaxSleepFactor : GovSleep(k))
ActStep == ActRecv \/ ActWriteVc(TRUE) \/ ActWriteC(TRUE)
FairInit == RampInitWith({<<0, 0, <<3, 4>>>>})
FairSpecRamp ==
    /\ FairInit
    /\ [][RampNext]_vars
    /\ WF_vars(GovStep)
    /\ WF_vars(ActStep)
    /\ WF_vars(MainJoinSet)

\* the same scheduling, from the configuration of SpecChan
FairSpecChan ==
    /\ ChanInit
    /\ [][RampNext]_vars
    /\ WF_vars(GovStep)
    /\ WF_vars(ActStep)
    /\ WF_vars(MainJoinSet)

\* every engine-clock range of the device against the safe points 2, 3, 5:
\* inside, around, below and above the table
EngineClocks == {<<3, 4>>, <<1, 7>>, <<1, 1>>, <<6, 7>>}
ClocksInit == RampInitWith({0} \X {0} \X EngineClocks)
SpecClocks == ClocksInit /\ [][RampNext]_vars

\* ------------------------------------------------------------------------
\* Process-aware governor: specification
\* ------------------------------------------------------------------------
\* the ramp governor is not running
RampOff ==
    /\ burst_samples = Missing
    /\ optimize_interval = 0
    /\ engine_clock = <<3, 4>>
    /\ min_freq = StartupMinFreq(engine_clock[1])
    /\ max_freq = StartupMaxFreq(engine_clock[2])
    /\ gov_pc = "off"
    /\ curr_freq = min_freq
    /\ target_freq = min_freq * TargetScale
    /\ samples = 0
    /\ stats = GpuStatsNew
    /\ last_adjustment = 0
    /\ last_finetune = 0
    /\ last_freq_change = 0
    /\ burst = FALSE
    /\ adj_now = FALSE
    /\ sent = FALSE
    /\ active_run = 0
    /\ chan = [value |-> min_freq, fresh |-> FALSE]
    /\ last_sent = min_freq
    /\ unseen_sends = 0
    /\ act_pc = "off"
    /\ act_freq = NoFreq
    /\ act_vol = NoVoltage
    /\ overwrote = FALSE
    /\ pp_file = [vc |-> <<>>, uncommitted |-> FALSE]
    /\ main_pc = "off"

PAInit ==
    /\ \E file \in InitialFiles : Startup(file)
    /\ RampOff
    /\ FnOff

\* the scans of this specification: the two games, each at most once, GameA
\* first, with counters that advanced
PAScans ==
    {scan \in Scans :
        /\ \A i \in 1 .. Len(scan) : scan[i].name # Kwin /\ scan[i].advance > 0
        /\ Len(scan) = 2 => (scan[1].name = GameA /\ scan[2].name = GameB)}

PANext ==
    \/ \E is_active \in BOOLEAN, scan \in ScansNow(PAScans),
          write_ok \in WriteOutcomes :
          PATick(is_active, scan, write_ok)
    \/ \E is_active \in BOOLEAN, scan \in ScansNow(PAScans),
          write_ok \in WriteOutcomes :
          PAWriteFail(is_active, scan, write_ok)
    \/ PAReadFail
    \/ PARestart

SpecPA == PAInit /\ [][PANext]_vars

\* the scans of a desktop session: a game and the compositor, each listed at
\* most once, in any order and with any counters
DesktopScans ==
    {scan \in Scans :
        /\ \A i \in 1 .. Len(scan) : scan[i].name \in {GameA, Kwin}
        /\ Len(scan) = 2 => scan[1].name # scan[2].name}

ScanInit ==
    /\ Startup(NoProfiles)
    /\ RampOff
    /\ FnOff

ScanNext ==
    \/ \E is_active \in BOOLEAN, scan \in ScansNow(DesktopScans) :
          PAScanTick(is_active, scan, TRUE)
    \/ \E is_active \in BOOLEAN, scan \in ScansNow(DesktopScans) :
          PAScanWriteFail(is_active, scan, TRUE)
    \/ PAReadFail
    \/ PARestart

SpecScan == ScanInit /\ [][ScanNext]_vars


\* ------------------------------------------------------------------------
\* Finalization alone: the governor is in a learning mode with drawn
\* statistics, the learning window has elapsed and GameA, tracked and stable,
\* has no profile; the call is the finalization of
\* process_aware_governor.rs 254-273
\* ------------------------------------------------------------------------
\* a frequency has at most MaxSamples recorded load samples
MaxSamples == 6

FrequencyStatsDrawn ==
    {[n |-> n, sum |-> 100 * k] : n \in 0 .. MaxSamples,
                                  k \in 0 .. MaxSamples * SAMPLE_WINDOW_SIZE}
LearningStatsDrawn ==
    {[stats |-> st, current_freq |-> f] :
        st \in [FreqGrid -> {x \in FrequencyStatsDrawn :
                                x.sum <= 100 * x.n * SAMPLE_WINDOW_SIZE}],
        f \in {MIN_FREQ_MHZ}}

FinalizeInit ==
    /\ pa_pc = "finalize"
    /\ load_monitor = [i \in 1 .. SAMPLE_WINDOW_SIZE |-> TRUE]
    /\ process_monitor =
           [ProcessMonitorNew EXCEPT !.current_process = <<GameA>>,
                                     !.process_start = PROCESS_STABILITY_SECS,
                                     !.last_cycles = {GameA}]
    /\ current_tracked_process = <<GameA>>
    /\ \E mode \in {"Learning", "Reevaluating"}, ls \in LearningStatsDrawn :
          governor = [GovernorNew EXCEPT !.mode = mode,
                                         !.mode_start = LEARNING_DURATION_SECS,
                                         !.learning_stats = <<ls>>]
    /\ db = NoProfiles
    /\ db_file = NoProfiles
    /\ pa_pp_file = [vc |-> <<MIN_FREQ_MHZ, interpolate_voltage(MIN_FREQ_MHZ)>>,
                     uncommitted |-> FALSE]
    /\ RampOff
    /\ FnOff

\* the state of main at process_aware_governor.rs 254
AtFinalization ==
    [lm |-> load_monitor, pm |-> process_monitor,
     tracked |-> current_tracked_process, gov |-> governor, db |-> db,
     file |-> db_file, pp |-> pa_pp_file, calls |-> 0, sets |-> 0,
     failed |-> FALSE]

FinalizeCall ==
    /\ pa_pc = "finalize"
    /\ \E S \in {Finalize(AtFinalization, NoFail, TRUE)} :
          /\ governor' = S.gov
          /\ db' = S.db
          /\ db_file' = S.file
          /\ pa_pp_file' = S.pp
    /\ last_call' = <<[args |-> governor.learning_stats[1],
                       result |-> finalize_learning(governor)]>>
    /\ pa_pc' = "finalized"
    /\ UNCHANGED <<load_monitor, process_monitor, current_tracked_process>>
    /\ UNCHANGED ramp_vars

SpecFinalize == FinalizeInit /\ [][FinalizeCall]_vars

\* ------------------------------------------------------------------------
\* The Applied branch alone: GameA is tracked, has a profile and its
\* frequency is applied; the load history, the time for which GameA has been
\* the monitor's process and the profile are drawn.  The call is the part of
\* an iteration from the load sample on (process_aware_governor.rs 184-276).
\* ------------------------------------------------------------------------
\* load samples of the history: 0 %, 45 %, 85 % and 100 %
LoadsDrawn == {percent * SAMPLE_WINDOW_SIZE : percent \in {0, 45, 85, 100}}
HistoriesDrawn == SeqsUpTo(LoadsDrawn, SATURATION_HISTORY_SIZE)

AppliedInit ==
    /\ pa_pc = "applied"
    /\ load_monitor \in {<<>>, [i \in 1 .. SAMPLE_WINDOW_SIZE |-> TRUE]}
    /\ \E since \in 0 .. PROCESS_STABILITY_SECS :
          process_monitor =
              [ProcessMonitorNew EXCEPT !.current_process = <<GameA>>,
                                        !.process_start = since,
                                        !.last_cycles = {GameA}]
    /\ current_tracked_process = <<GameA>>
    /\ \E freq \in FreqGrid, history \in HistoriesDrawn :
          /\ governor = [GovernorNew EXCEPT !.mode = "Applied",
                                            !.current_freq = freq,
                                            !.load_history = history]
          /\ db = [NoProfiles EXCEPT ![GameA] = <<[optimal_freq |-> freq]>>]
          /\ pa_pp_file = [vc |-> <<freq, interpolate_voltage(freq)>>,
                           uncommitted |-> FALSE]
    /\ db_file = db
    /\ RampOff
    /\ FnOff

\* last_call keeps the history the branch decided on and whether the process
\* was stable, with the mode and the frequency after the call
AppliedCall(is_active) ==
    /\ pa_pc = "applied"
    /\ \E S0 \in {[AtFinalization EXCEPT !.lm = lm_add_sample(load_monitor, is_active)]} :
       \E S \in {FullWindow(S0, NoFail, TRUE)} :
          /\ Commit(S)
          /\ governor' = S.gov
          /\ last_call' =
                <<[args |-> [history |-> IF lm_is_full(S0.lm)
                                         THEN RecordLoad(S0).gov.load_history
                                         ELSE governor.load_history,
                             recorded |-> lm_is_full(S0.lm),
                             since |-> process_monitor.process_start,
                             stored |-> db[GameA][1].optimal_freq],
                   result |-> [mode |-> S.gov.mode, freq |-> S.gov.current_freq]]>>
    /\ pa_pc' = "applied_done"
    /\ UNCHANGED process_monitor
    /\ UNCHANGED ramp_vars

SpecApplied == AppliedInit /\ [][\E is_active \in BOOLEAN : AppliedCall(is_active)]_vars

\* ------------------------------------------------------------------------
\* The Learning branch, iteration after iteration: GameA is tracked and is
\* being learned or re-evaluated from a drawn frequency, with a drawn load
\* history and a drawn time since the last change of frequency; no scan
\* changes the process.  An iteration takes one time unit or more.  The
\* history holds one sample per iteration since the last change, so it is
\* no longer than that time unless the time counter has saturated.
\* last_call keeps, for the iteration just made, the history it decided on,
\* the frequency before and after try_adjust_learning, the load sample and
\* the statistics before and after it was recorded, and the time and the
\* samples since the previous adjustment of the run (NoAdjustment before the
\* first).
\* ------------------------------------------------------------------------
NoAdjustment == -1

LearnInit ==
    /\ pa_pc = "learn"
    /\ load_monitor = <<>>
    /\ process_monitor = [ProcessMonitorNew EXCEPT !.current_process = <<GameA>>,
                                                   !.process_start = 0,
                                                   !.last_cycles = {GameA}]
    /\ current_tracked_process = <<GameA>>
    /\ \E mode \in {"Learning", "Reevaluating"}, freq \in FreqGrid,
          history \in HistoriesDrawn, last_change \in 0 .. MIN_CHANGE_INTERVAL_SECS :
          /\ last_change < MIN_CHANGE_INTERVAL_SECS => Len(history) <= last_change
          /\ governor = [GovernorNew EXCEPT !.mode = mode,
                                            !.current_freq = freq,
                                            !.last_change = last_change,
                                            !.load_history = history,
                                            !.learning_stats = <<LearningStatsNew>>]
          /\ db = IF mode = "Reevaluating"
                  THEN [NoProfiles EXCEPT ![GameA] = <<[optimal_freq |-> freq]>>]
                  ELSE NoProfiles
          /\ pa_pp_file = [vc |-> <<freq, interpolate_voltage(freq)>>,
                           uncommitted |-> FALSE]
    /\ db_file = db
    /\ RampOff
    /\ FnOff

\* process_aware_governor.rs 184-276, then the time d to the next iteration
LearnCall(is_active, d) ==
    /\ pa_pc = "learn"
    /\ governor.mode \in {"Learning", "Reevaluating"}
    /\ \E S0 \in {[AtFinalization EXCEPT !.lm = lm_add_sample(load_monitor, is_active)]} :
       \E S \in {FullWindow(S0, NoFail, TRUE)} :
          LET before == IF last_call = <<>> THEN [since |-> NoAdjustment, fresh |-> 0]
                        ELSE last_call[1].result.next
              recorded == lm_is_full(S0.lm)
              decided == IF recorded THEN RecordLoad(S0).gov ELSE governor
              adjusted == recorded /\ try_adjust_learning(decided).ret # <<>>
              fresh == IF recorded THEN before.fresh + 1 ELSE before.fresh
          IN /\ Commit(S)
             /\ governor' = GovLater(S.gov, d)
             /\ process_monitor' =
                   [Later(process_monitor, d) EXCEPT !.last_update = process_monitor.last_update]
             /\ last_call' =
                   <<[args |-> [history |-> decided.load_history,
                                mode |-> governor.mode,
                                freq |-> governor.current_freq,
                                last_change |-> governor.last_change,
                                stats |-> governor.learning_stats[1].stats,
                                recorded |-> recorded,
                                load |-> lm_load(S0.lm),
                                since |-> before.since,
                                fresh |-> fresh],
                      result |-> [adjusted |-> adjusted,
                                  stats |-> decided.learning_stats[1].stats,
                                  freq |-> IF recorded
                                           THEN try_adjust_learning(decided).g.current_freq
                                           ELSE governor.current_freq,
                                  next |-> IF adjusted THEN [since |-> d, fresh |-> 0]
                                           ELSE [since |-> IF before.since = NoAdjustment
                                                           THEN NoAdjustment
                                                           ELSE Min(before.since + d,
                                                                    MIN_CHANGE_INTERVAL_SECS),
                                                 fresh |-> Min(fresh, LEARNING_HISTORY_SIZE)]]]>>
    /\ pa_pc' = pa_pc
    /\ UNCHANGED ramp_vars

SpecLearn ==
    LearnInit /\ [][\E is_active \in BOOLEAN, d \in 1 .. MIN_CHANGE_INTERVAL_SECS :
                       LearnCall(is_active, d)]_vars

\* The loop keeps iterating (process_aware_governor.rs 111-309: no call of
\* the body blocks, and it ends in a sleep of 10 ms): weak fairness of
\* LearnStep, which is
\*     []<>(~ENABLED <<LearnStep>>_vars) \/ []<><<LearnStep>>_vars.
\* LearnMoves is the enabling condition computed from the iteration: some
\* sample and some duration change an object of main.
LearnStep ==
    \E is_active \in BOOLEAN, d \in 1 .. MIN_CHANGE_INTERVAL_SECS : LearnCall(is_active, d)
LearnMoves ==
    /\ pa_pc = "learn"
    /\ governor.mode \in {"Learning", "Reevaluating"}
    /\ \E is_active \in BOOLEAN, d \in 1 .. MIN_CHANGE_INTERVAL_SECS :
          \E S \in {FullWindow([AtFinalization EXCEPT
                                   !.lm = lm_add_sample(load_monitor, is_active)],
                               NoFail, TRUE)} :
             <<S.lm, S.tracked, S.db, S.file, S.pp, GovLater(S.gov, d),
               Later(process_monitor, d).process_start>>
                 # <<load_monitor, current_tracked_process, db, db_file, pa_pp_file,
                     governor, process_monitor.process_start>>
FairSpecLearn ==
    /\ LearnInit
    /\ [][LearnStep]_vars
    /\ ([]<>(~LearnMoves) \/ []<><<LearnStep>>_vars)

\* ------------------------------------------------------------------------
\* ProcessMonitor::update alone, on a drawn monitor and any scan of up to
\* MaxProcs processes among the two games and the compositor
\* ------------------------------------------------------------------------
MonitorsDrawn ==
    {[current_process |-> cur, process_start |-> since,
      last_cycles |-> rec, last_update |-> elapsed] :
        cur \in {<<>>, <<GameA>>, <<GameB>>},
        since \in {NoInstant} \cup (0 .. PROCESS_STABILITY_SECS),
        rec \in SUBSET ProcNames,
        elapsed \in 1 .. PROCESS_UPDATE_INTERVAL_SECS + MaxAdvance - 1}

\* the current process was in the scan that made it current, at an update
\* that is not later than the last one
MonitorPossible(pm) ==
    IF pm.current_process = <<>> THEN pm.process_start = NoInstant
    ELSE /\ pm.current_process[1] \in pm.last_cycles
         /\ pm.process_start >= Min(pm.last_update, PROCESS_STABILITY_SECS)

MonitorInit ==
    /\ pa_pc = "monitor"
    /\ process_monitor \in {pm \in MonitorsDrawn : MonitorPossible(pm)}
    /\ current_tracked_process = process_monitor.current_process
    /\ governor = IF current_tracked_process = <<>> THEN GovernorNew
                  ELSE start_learning(GovernorNew, MIN_FREQ_MHZ)
    /\ load_monitor = <<>>
    /\ db = NoProfiles
    /\ db_file = NoProfiles
    /\ pa_pp_file = [vc |-> <<MIN_FREQ_MHZ, interpolate_voltage(MIN_FREQ_MHZ)>>,
                     uncommitted |-> FALSE]
    /\ RampOff
    /\ FnOff

\* process_aware_governor.rs 122: process_monitor.update()
MonitorCall(scan) ==
    /\ pa_pc = "monitor"
    /\ process_monitor' = pm_update(process_monitor, scan).pm
    /\ last_call' = Observed(scan)
    /\ pa_pc' = "monitored"
    /\ UNCHANGED <<load_monitor, current_tracked_process, governor, db, db_file,
                   pa_pp_file>>
    /\ UNCHANGED ramp_vars

SpecMonitor == MonitorInit /\ [][\E scan \in ScansNow(Scans) : MonitorCall(scan)]_vars

\* ------------------------------------------------------------------------
\* One iteration from a drawn learning state: GameA is tracked and being
\* learned or re-evaluated, with drawn statistics, and a scan is due.  The
\* loop records two samples per 10 ms iteration and PROCESS_STABILITY_SECS
\* is 10 s, so any statistics go with any time since GameA became current.
\* ------------------------------------------------------------------------
SwitchInit ==
    /\ pa_pc = "switch"
    /\ load_monitor = [i \in 1 .. SAMPLE_WINDOW_SIZE |-> TRUE]
    /\ process_monitor \in
           {pm \in MonitorsDrawn :
               /\ MonitorPossible(pm)
               /\ pm.current_process = <<GameA>>
               /\ pm.last_cycles = {GameA}
               /\ pm.last_update = PROCESS_UPDATE_INTERVAL_SECS}
    /\ current_tracked_process = <<GameA>>
    /\ \E mode \in {"Learning", "Reevaluating"}, ls \in LearningStatsDrawn,
          file \in InitialFiles :
          /\ governor = [GovernorNew EXCEPT !.mode = mode,
                                            !.mode_start = process_monitor.process_start,
                                            !.learning_stats = <<ls>>]
          /\ db = IF mode = "Reevaluating"
                  THEN [file EXCEPT ![GameA] = <<StoredProfile>>]
                  ELSE file
    /\ db_file = db
    /\ pa_pp_file = [vc |-> <<MIN_FREQ_MHZ, interpolate_voltage(MIN_FREQ_MHZ)>>,
                     uncommitted |-> FALSE]
    /\ RampOff
    /\ FnOff

\* the first set_gpu_frequency call of the iteration succeeds or fails
FirstCallOutcomes == {NoFail} \cup {[call |-> 1, at |-> at] : at \in {"vc", "c"}}

\* process_aware_governor.rs 111-276; last_call keeps what finalize_learning
\* returns on the governor as it is, the tracked process, the time since it
\* became the monitor's process, the store, and the value of update()
SwitchCall(is_active, scan, fail) ==
    /\ pa_pc = "switch"
    /\ \E S \in {Iteration(is_active, scan, fail, TRUE)} :
          /\ Commit(S)
          /\ process_monitor' = S.pm
          /\ governor' = S.gov
          /\ pa_pc' = IF S.failed THEN "exited" ELSE "switched"
    /\ last_call' = <<[args |-> [partial |-> finalize_learning(governor),
                                 tracked |-> current_tracked_process,
                                 since |-> process_monitor.process_start,
                                 db |-> db],
                       result |-> pm_update(process_monitor, scan).ret]>>
    /\ UNCHANGED ramp_vars

SpecSwitch ==
    SwitchInit /\ [][\E is_active \in BOOLEAN, scan \in ScansNow(PAScans),
                        fail \in FirstCallOutcomes :
                        SwitchCall(is_active, scan, fail)]_vars

\* ------------------------------------------------------------------------
\* The profile store alone: set on a drawn store and a drawn profile
\* ------------------------------------------------------------------------
\* comfort scores of 30, 92.5 and 100, sample counts of 5 and 6
ProfilesDrawn ==
    {ProcessProfileNew(name, freq, comfort, count) :
        name \in ProcNames, freq \in FreqGrid,
        comfort \in {<<30, 1>>, <<185, 2>>, <<100, 1>>}, count \in {5, 6}}
StoresDrawn ==
    [ProcNames -> {<<>>} \cup {<<ProfileValue(profile)>> :
                                  profile \in {x \in ProfilesDrawn : x.comfort_score # <<30, 1>>}}]

\* the backing file as the constructor finds it: kind is what exists(),
\* read_to_string() and from_str() make of it, profiles is what its bytes hold
DiskFiles ==
    {[kind |-> "absent", profiles |-> NoProfiles],
     [kind |-> "garbage", profiles |-> NoProfiles]}
      \cup {[kind |-> kind, profiles |-> profiles] :
                kind \in {"unreadable", "json"}, profiles \in StoresDrawn}

ProcessDatabaseNewAnyway(disk) == db_load(disk.profiles)

\* profile_db.rs 31-55: new() starts from an empty map and load() replaces it
\* only when the file exists, can be read and parses
ProcessDatabaseNew(disk) ==
    IF disk.kind = "absent" THEN NoProfiles
    ELSE IF disk.kind = "unreadable" THEN NoProfiles
    ELSE IF disk.kind = "garbage" THEN NoProfiles
    ELSE db_load(disk.profiles)

StoreInit ==
    /\ \/ pa_pc = "store" /\ db \in StoresDrawn
       \/ pa_pc = "new" /\ db = NoProfiles
    /\ db_file = db
    /\ load_monitor = <<>>
    /\ process_monitor = ProcessMonitorNew
    /\ current_tracked_process = <<>>
    /\ governor = GovernorNew
    /\ pa_pp_file = [vc |-> <<>>, uncommitted |-> FALSE]
    /\ RampOff
    /\ FnOff

\* profile_db.rs 63-74: set(profile), then get(profile.name)
StoreSet(profile, write_ok) ==
    /\ pa_pc = "store"
    /\ db' = db_set(db, profile)
    /\ db_file' = db_save(db_file, db', write_ok)
    /\ last_call' = <<[args |-> [profile |-> profile, before |-> db,
                                 write_ok |-> write_ok,
                                 disk |-> IF last_call = <<>> THEN <<>>
                                          ELSE <<last_call[1].args.disk>>],
                       result |-> db_get(db', profile.name)]>>
    /\ pa_pc' = "stored"
    /\ UNCHANGED <<load_monitor, process_monitor, current_tracked_process,
                   governor, pa_pp_file>>
    /\ UNCHANGED ramp_vars

\* profile_db.rs 31-44: ProcessDatabase::new() on the file found on disk; the
\* constructor returns Self, there is no error to return
StoreNew(disk) ==
    /\ pa_pc = "new"
    /\ db' = ProcessDatabaseNew(disk)
    /\ db_file' = IF disk.kind = "json" THEN disk.profiles ELSE NoProfiles
    /\ last_call' = <<[args |-> [disk |-> disk], result |-> "Self"]>>
    /\ pa_pc' = "store"
    /\ UNCHANGED <<load_monitor, process_monitor, current_tracked_process,
                   governor, pa_pp_file>>
    /\ UNCHANGED ramp_vars

StoreNext ==
    \/ \E disk \in DiskFiles : StoreNew(disk)
    \/ \E profile \in ProfilesDrawn, write_ok \in BOOLEAN : StoreSet(profile, write_ok)

SpecStore == StoreInit /\ [][StoreNext]_vars

\* ------------------------------------------------------------------------
\* The two load windows alone: the same samples fed to a GpuStats and to a
\* GpuLoadMonitor of the same drawn capacity; last_call keeps the capacity
\* and the samples fed so far
\* ------------------------------------------------------------------------
MaxCapacity == 3
MaxFed == 6

WindowInit ==
    /\ RampOff
    /\ PAOff
    /\ last_call \in {<<[args |-> [capacity |-> capacity, fed |-> <<>>],
                         result |-> <<>>]>> : capacity \in 1 .. MaxCapacity}

\* main.rs 34-47 and load_monitor.rs 17-22
WindowFeed(is_active) ==
    /\ Len(last_call[1].args.fed) < MaxFed
    /\ stats' = GpuStats_add_sample(stats, last_call[1].args.capacity, is_active)
    /\ load_monitor' =
          GpuLoadMonitor_add_sample(load_monitor, last_call[1].args.capacity, is_active)
    /\ last_call' = <<[last_call[1] EXCEPT !.args.fed = Append(@, is_active)]>>
    /\ UNCHANGED <<cfg_vars, gov_pc, curr_freq, target_freq, samples, last_adjustment,
                   last_finetune, last_freq_change, burst, adj_now, sent, active_run,
                   chan_vars, act_vars, main_pc>>
    /\ UNCHANGED <<pa_pc, process_monitor, current_tracked_process, governor, db,
                   db_file, pa_pp_file>>

\* ------------------------------------------------------------------------
\* The process monitor on cycle counters: each pid has a name and a counter,
\* a scan reports the pids that can be read and have a non-zero total;
\* last_call keeps the names, the counters at the preceding scan (then) and
\* at this one (now), both scans and the deltas computed
\* ------------------------------------------------------------------------
MaxPids == 2
MaxTotal == 2
Pids == 1 .. MaxPids

\* process_detection.rs 166-221: one GpuProcess per readable pid whose
\* descriptors sum to more than 0, in the order of /proc
collect_gpu_processes(names, totals, readable) ==
    SelectSeq([pid \in Pids |-> [pid |-> pid, name |-> names[pid],
                                 total_cycles |-> totals[pid]]],
              LAMBDA proc : proc.pid \in readable /\ proc.total_cycles > 0)

CyclesInit ==
    /\ RampOff
    /\ PAOff
    /\ \E names \in [Pids -> {GameA, GameB}], totals \in [Pids -> 0 .. 1] :
          last_call = <<[args |-> [names |-> names, then |-> totals, now |-> totals,
                                   preceding |-> <<>>, scan |-> <<>>, scans |-> 0],
                         result |-> <<>>]>>

\* process_monitor.rs 28-141, PROCESS_UPDATE_INTERVAL_SECS after the
\* preceding update
CyclesScan(totals, readable) ==
    LET a == last_call[1].args
        scan == collect_gpu_processes(a.names, totals, readable)
        last_cycles == IF a.scans = 0 THEN [n \in {a.names[pid] : pid \in Pids} |-> <<>>]
                       ELSE process_monitor.last_cycles
        cd == CycleDeltas(scan, last_cycles)
        u == pm_update([process_monitor EXCEPT
                            !.last_cycles = {},
                            !.last_update = PROCESS_UPDATE_INTERVAL_SECS],
                       [i \in 1 .. Len(scan) |->
                           [name |-> scan[i].name, advance |-> cd.deltas[i].delta]])
    IN /\ process_monitor' = [u.pm EXCEPT !.last_cycles = cd.last_cycles]
       /\ last_call' = <<[args |-> [names |-> a.names, then |-> a.now, now |-> totals,
                                     preceding |-> a.scan, scan |-> scan,
                                     scans |-> Min(a.scans + 1, 2)],
                          result |-> cd.deltas]>>
       /\ UNCHANGED <<pa_pc, load_monitor, current_tracked_process, governor, db,
                      db_file, pa_pp_file>>
       /\ UNCHANGED ramp_vars

SpecCycles ==
    CyclesInit /\ [][\E totals \in [Pids -> 0 .. MaxTotal], readable \in SUBSET Pids :
                        CyclesScan(totals, readable)]_vars

\* ------------------------------------------------------------------------
\* Startup of the ramp governor on a drawn safe-points option: <<>> when the
\* key is absent, <<array>> otherwise, the array a sequence of
\* [frequency, voltage]; -1 stands for a value that is no u16 (or no
\* integer, or missing)
\* ------------------------------------------------------------------------
MaxPoints == 3
U16Max == 65535
PointsDrawn == [frequency : {-1, 2, 3}, voltage : {700, 850}]
SafePointOptions ==
    {<<>>} \cup {<<array>> : array \in UNION {[1 .. n -> PointsDrawn] : n \in 0 .. MaxPoints}}
DefaultSafePoints == (350 :> 700) @@ (2000 :> 1000)

\* main.rs 386-449: the BTreeMap filled entry by entry; Err on an entry
\* that is no pair of u16 and on a frequency already inserted
RECURSIVE InsertPoints(_, _)
InsertPoints(array, table) ==
    IF array = <<>> THEN [ok |-> TRUE, table |-> table]
    ELSE LET t == Head(array)
         IN IF t.frequency \notin 0 .. U16Max \/ t.voltage \notin 0 .. U16Max
            THEN [ok |-> FALSE]
            ELSE IF t.frequency \in DOMAIN table THEN [ok |-> FALSE]
            ELSE InsertPoints(Tail(array), table @@ (t.frequency :> t.voltage))

PairLessFrequencyFirst(a, b) == a[2] < b[2] \/ (a[2] = b[2] /\ a[1] < b[1])
\* main.rs 452-453: pair < highest_pair on (voltage, frequency) tuples
PairLess(a, b) == a[1] < b[1] \/ (a[1] = b[1] /\ a[2] < b[2])

\* main.rs 450-465: the entries in increasing frequency against the highest
\* pair so far
RECURSIVE VoltagesOrdered(_, _, _)
VoltagesOrdered(table, keys, highest_pair) ==
    IF keys = {} THEN TRUE
    ELSE LET frequency == CHOOSE k \in keys : \A j \in keys : k <= j
             pair == <<table[frequency], frequency>>
         IN IF PairLess(pair, highest_pair) THEN FALSE
            ELSE VoltagesOrdered(table, keys \ {frequency}, pair)

\* main.rs 374-476
ParseSafePoints(option) ==
    IF option = <<>> THEN [ok |-> TRUE, table |-> DefaultSafePoints]
    ELSE IF option[1] = <<>> THEN [ok |-> FALSE]
    ELSE LET inserted == InsertPoints(option[1], <<>>)
         IN IF ~inserted.ok THEN [ok |-> FALSE]
            ELSE IF ~VoltagesOrdered(inserted.table, DOMAIN inserted.table, <<0, 0>>)
                 THEN [ok |-> FALSE]
                 ELSE inserted

SafePointsInit ==
    /\ RampOff
    /\ PAOff
    /\ last_call \in {<<[args |-> option, result |-> <<>>]>> : option \in SafePointOptions}

\* main.rs 374-535: the `?` on an Err returns from main; with the table
\* accepted and the device found, the two threads are spawned
RampStartup(device_ok) ==
    /\ main_pc = "off"
    /\ last_call[1].result = <<>>
    /\ LET parsed == ParseSafePoints(last_call[1].args)
       IN /\ last_call' = <<[last_call[1] EXCEPT !.result = <<parsed>>]>>
          /\ IF parsed.ok /\ device_ok
             THEN gov_pc' = "run" /\ act_pc' = "wait" /\ main_pc' = "join_set"
             ELSE gov_pc' = gov_pc /\ act_pc' = act_pc /\ main_pc' = "exited"
    /\ UNCHANGED <<cfg_vars, curr_freq, target_freq, samples, stats, last_adjustment,
                   last_finetune, last_freq_change, burst, adj_now, sent, active_run,
                   chan_vars, act_freq, act_vol, overwrote, pp_file>>
    /\ UNCHANGED pa_vars

SpecSafePoints ==
    SafePointsInit /\ [][\E device_ok \in BOOLEAN : RampStartup(device_ok)]_vars

\* ------------------------------------------------------------------------
\* Ramp governor: the frequency thresholds of the configuration and the
\* write decision made with them (main.rs 283-317, 587-640)
\* ------------------------------------------------------------------------
\* frequency-thresholds.finetune and .adjust as found: Missing, or an integer
FinetuneOptions == {Missing, 0, 1, 3, 32768}
AdjustOptions == {Missing, 0, 2}

\* variant: any integer is taken as it is
ThresholdOfAny(option, default) == IF option = Missing THEN default ELSE option
\* main.rs 287-300, 303-316: a positive integer that fits u16, or the default
ThresholdOf(option, default) ==
    IF option = Missing \/ option <= 0 \/ option > U16Max THEN default
    ELSE option

\* main.rs 287-300: the default is 10 MHz
ParseSmallChange(option) == ThresholdOf(option, 10)

\* main.rs 303-316: the default is 10 * small_change, a u16 multiplication;
\* beyond u16::MAX it panics when overflow checks are compiled in and wraps
\* when they are not
ParseSignificantChange(option, small, overflow_checks) ==
    IF ThresholdOf(option, Missing) # Missing THEN [ok |-> TRUE, value |-> option]
    ELSE IF 10 * small <= U16Max THEN [ok |-> TRUE, value |-> 10 * small]
    ELSE IF overflow_checks THEN [ok |-> FALSE]
    ELSE [ok |-> TRUE, value |-> (10 * small) % (U16Max + 1)]

\* main.rs 590-597 with the thresholds of the configuration
ShouldWriteWith(cur, t16, finetune_elapsed, burst_now, small, significant) ==
    \/ HitBounds(cur, t16)
    \/ AbsDiff(cur, t16) >= significant
    \/ (finetune_elapsed >= finetune_interval /\ AbsDiff(cur, t16) >= small)
    \/ BurstUp(cur, t16, burst_now)

ThresholdsInit ==
    /\ RampOff
    /\ PAOff
    /\ last_call \in
          {<<[args |-> [finetune |-> f, adjust |-> a], result |-> <<>>]>> :
              f \in FinetuneOptions, a \in AdjustOptions}

\* main.rs 283-317: a panic ends the process before the threads are spawned
ThresholdsStartup(overflow_checks) ==
    /\ main_pc = "off"
    /\ last_call[1].result = <<>>
    /\ LET small == ParseSmallChange(last_call[1].args.finetune)
           significant ==
               ParseSignificantChange(last_call[1].args.adjust, small, overflow_checks)
       IN IF significant.ok
          THEN /\ last_call' =
                     <<[last_call[1] EXCEPT
                          !.result = <<[small_change |-> small,
                                        significant_change |-> significant.value,
                                        direction |-> <<>>]>>]>>
               /\ gov_pc' = "run" /\ act_pc' = "wait" /\ main_pc' = "join_set"
          ELSE /\ last_call' = last_call
               /\ gov_pc' = gov_pc /\ act_pc' = act_pc /\ main_pc' = "exited"
    /\ UNCHANGED <<cfg_vars, curr_freq, target_freq, samples, stats, last_adjustment,
                   last_finetune, last_freq_change, burst, adj_now, sent, active_run,
                   chan_vars, act_freq, act_vol, overwrote, pp_file>>
    /\ UNCHANGED pa_vars

\* main.rs 585-640 at a tick where adjustment_interval has elapsed: the
\* clamped target tgt, the time since the last publication and the burst
\* are the tick's
ThresholdsTick(tgt, finetune_elapsed, burst_now) ==
    /\ gov_pc = "run"
    /\ LET t16 == AsU16(ClampTarget(tgt))
           th == last_call[1].result[1]
       IN /\ target_freq' = ClampTarget(tgt)
          /\ burst' = burst_now
          /\ adj_now' = TRUE
          /\ last_finetune' = finetune_elapsed
          /\ IF ShouldWriteWith(curr_freq, t16, finetune_elapsed, burst_now,
                                th.small_change, th.significant_change)
             THEN /\ chan' = ChanSend(chan, t16)
                  /\ sent' = TRUE
                  /\ last_sent' = t16
                  /\ unseen_sends' = Min(unseen_sends + 1, 2)
                  /\ curr_freq' = t16
                  /\ last_call' =
                        <<[last_call[1] EXCEPT
                             !.result = <<[th EXCEPT
                                 !.direction = <<Direction(curr_freq, t16)>>]>>]>>
             ELSE /\ sent' = FALSE
                  /\ last_call' =
                        <<[last_call[1] EXCEPT
                             !.result = <<[th EXCEPT !.direction = <<>>]>>]>>
                  /\ UNCHANGED <<chan_vars, curr_freq>>
    /\ UNCHANGED <<cfg_vars, gov_pc, samples, stats, last_adjustment,
                   last_freq_change, active_run, act_vars, main_pc>>
    /\ UNCHANGED pa_vars

ThresholdsNext ==
    \/ \E overflow_checks \in BOOLEAN : ThresholdsStartup(overflow_checks)
    \/ \E tgt \in {f * TargetScale + 5 * h : f \in min_freq .. max_freq, h \in 0 .. 1},
          e \in {0, finetune_interval}, burst_now \in BOOLEAN :
          ThresholdsTick(tgt, e, burst_now)

SpecThresholds == ThresholdsInit /\ [][ThresholdsNext]_vars

SpecWindow == WindowInit /\ [][\E is_active \in BOOLEAN : WindowFeed(is_active)]_vars

\* ========================================================================
\* Properties of the ramp governor
\* ========================================================================
\* a step of the governor thread that runs one loop body
GovTickStep == gov_pc = "run" /\ gov_pc' = "sleep"
\* a step of the actuator thread that returns from recv.wait()
ActRecvStep == act_pc = "wait" /\ act_pc' # "wait"
InRange(f) == min_freq <= f /\ f <= max_freq

\* C1: a tick publishes a target only if adjust_interval has elapsed since
\* the previous publication (last_finetune is reset by every publication and
\* by nothing else) or a burst is detected at that tick.
C1_WriteOnlyWhenDue ==
    [][(GovTickStep /\ sent') =>
           (last_finetune >= adjustment_interval \/ burst')]_vars

\* a second publication, made at a tick without burst
C1_Witness == gov_pc = "sleep" /\ sent /\ ~burst /\ unseen_sends = 2

\* C2: a tick publishes iff (adjust_interval has elapsed since the previous
\* tick that evaluated the write condition, or burst) and one of: the
\* quantized target is a bound and differs from current; the difference is
\* at least significant_change; finetune_interval has elapsed since the last
\* publication and the difference is at least small_change; burst and the
\* quantized target differs from current.
C2_WriteIff ==
    [][GovTickStep =>
         (sent' <=>
            /\ (last_adjustment >= adjustment_interval \/ burst')
            /\ LET t == target_freq' \div TargetScale
                   d == IF t >= curr_freq THEN t - curr_freq ELSE curr_freq - t
               IN \/ (t # curr_freq /\ (t = min_freq \/ t = max_freq))
                  \/ d >= significant_change
                  \/ (last_finetune >= finetune_interval /\ d >= small_change)
                  \/ (burst' /\ curr_freq # t))]_vars

\* a burst tick that published although adjust_interval had not elapsed
C2_Witness == gov_pc = "sleep" /\ sent /\ burst /\ ~adj_now

\* C3: min_freq..max_freq is the safe-point range intersected with the
\* engine-clock range; the target, the current frequency and every value
\* published or received stay inside it.
C3_FreqInRange ==
    /\ min_freq = Max(FirstKey(safe_points), engine_clock[1])
    /\ max_freq = Min(LastKey(safe_points), engine_clock[2])
    /\ min_freq * TargetScale <= target_freq
    /\ target_freq <= max_freq * TargetScale
    /\ InRange(curr_freq)
    /\ InRange(last_sent)
    /\ InRange(chan.value)
    /\ (act_freq # NoFreq => InRange(act_freq))

\* the target was clamped at a max_freq that the engine clock lowered, and
\* max_freq was published
C3_Witness ==
    /\ gov_pc = "sleep" /\ sent
    /\ max_freq < LastKey(safe_points)
    /\ target_freq = max_freq * TargetScale
    /\ last_sent = max_freq

\* C4: each tick applies exactly one update to the target, by priority:
\* burst, above up_thresh, below down_thresh, drift (optimize enabled, no
\* publication for optimize_interval, load below up_thresh - 2), none; then
\* the clamp.
C4_TargetUpdate ==
    [][GovTickStep =>
         LET w == stats'.samples
             n == Len(w)
             busy == Cardinality({i \in 1 .. n : w[i]})
             unit == (sampling_interval * TargetScale) \div 1000
             delta ==
                 IF burst' THEN ramp_rate_burst * unit
                 ELSE IF busy * 100 > up_thresh * n THEN ramp_rate * unit
                 ELSE IF busy * 100 < down_thresh * n THEN 0 - ramp_rate * unit
                 ELSE IF /\ optimize_interval > 0
                         /\ last_freq_change >= optimize_interval
                         /\ busy * 100 < (up_thresh - 2) * n
                      THEN 0 - (ramp_rate * unit) \div 10
                 ELSE 0
             raw == target_freq + delta
         IN target_freq' =
                IF raw < min_freq * TargetScale THEN min_freq * TargetScale
                ELSE IF raw > max_freq * TargetScale THEN max_freq * TargetScale
                ELSE raw]_vars

\* the drift rule fired: only it produces a target off the ramp-step grid
C4_Witness == gov_pc = "sleep" /\ target_freq % TargetScale # 0

\* the number of samples the burst option stands for
EffectiveBurstSamples ==
    IF burst_samples = Missing THEN 48
    ELSE IF burst_samples > 64 THEN 64
    ELSE burst_samples

\* C5: with B the effective burst-samples setting, a burst is detected at a
\* tick iff the B most recent samples are all active; with B = 0, never.
\* (active_run saturates at RunCap: for B > RunCap only "burst implies a run
\* of at least RunCap" is stated.)
C5_BurstIffRun ==
    IF EffectiveBurstSamples = 0 THEN ~burst
    ELSE IF EffectiveBurstSamples <= RunCap
         THEN (burst <=> active_run >= EffectiveBurstSamples)
         ELSE (burst => active_run = RunCap)

\* C6: the voltage written with frequency f is that of the smallest safe
\* point at or above f, and the lookup is non-decreasing over the range.
C6_VoltageOfSmallestSafePoint ==
    /\ pp_file.vc # <<>> =>
          LET f == pp_file.vc[1]
              v == pp_file.vc[2]
          IN /\ InRange(f)
             /\ \E k \in DOMAIN safe_points :
                   /\ k >= f
                   /\ safe_points[k] = v
                   /\ \A j \in DOMAIN safe_points : j >= f => k <= j
    /\ \A f1, f2 \in min_freq .. max_freq :
          f1 <= f2 => LookupVoltage(f1) <= LookupVoltage(f2)

\* a frequency strictly between two safe points was written
C6_Witness == pp_file.vc = <<4, 1000>>

\* C7: the slot holds the value of the most recent send; a value received
\* is, as long as no later send happened, the value of the most recent send,
\* whatever number of sends preceded the receive; a receive leaves nothing
\* pending; the governor's loop body is never blocked by the channel.
C7_LatestWins ==
    /\ chan.fresh => chan.value = last_sent
    /\ (act_freq # NoFreq /\ unseen_sends = 0) => act_freq = last_sent
    /\ unseen_sends = 0 <=> ~chan.fresh
    /\ (Running /\ gov_pc = "run") => ENABLED GovTick(TRUE)

\* a value received after two sends has been written to the file
C7_Witness ==
    act_pc = "write_c" /\ overwrote /\ pp_file.vc[1] = act_freq

\* C8 as stated: a vc command without its commit exists at most while the
\* actuator thread is about to write that commit.
C8_NoPartialState == pp_file.uncommitted => act_pc = "write_c"

\* C8 amended: the file changes only by a vc command written on a committed
\* file or by the commit of the pending vc command; a vc command is without
\* its commit only between the two writes, or after the commit write failed.
C8_PairedStep ==
    /\ (pp_file' # pp_file) =>
          (\/ /\ act_pc = "write_vc" /\ act_pc' = "write_c"
              /\ ~pp_file.uncommitted
              /\ pp_file' = [vc |-> <<act_freq, act_vol>>, uncommitted |-> TRUE]
           \/ /\ act_pc = "write_c" /\ act_pc' = "wait"
              /\ pp_file.uncommitted
              /\ pp_file' = [vc |-> pp_file.vc, uncommitted |-> FALSE])
    /\ (act_pc' = "err" /\ pp_file'.uncommitted) =>
          (act_pc \in {"write_c", "err"})
    /\ (act_pc = "write_c" /\ act_pc' = "wait") => ~pp_file'.uncommitted

C8_PairedWrites ==
    /\ [](act_pc \in {"wait", "write_vc"} => ~pp_file.uncommitted)
    /\ [][C8_PairedStep]_vars

\* a complete actuation: vc then commit
C8_Witness == act_pc = "wait" /\ pp_file.vc # <<>> /\ ~pp_file.uncommitted

\* C9: after a failed register read or a failed file write the program
\* eventually terminates.
C9_FailureTerminates ==
    (gov_pc = "err" \/ act_pc = "err") ~> (main_pc = "exited")


\* ========================================================================
\* Properties of the process-aware governor
\* ========================================================================
\* the finalization of process_aware_governor.rs 254-273 was due
FinalizationWasDue ==
    /\ learning_done(governor)
    /\ is_process_stable(process_monitor)
    /\ current_tracked_process # <<>>
    /\ process_monitor'.current_process = current_tracked_process

\* the process monitor reported another process, one with a stored profile
\* (process_aware_governor.rs 125-158)
SwitchedToKnownProcess ==
    /\ process_monitor'.current_process # <<>>
    /\ process_monitor'.current_process # current_tracked_process
    /\ db_get(db', process_monitor'.current_process[1]) # <<>>
    /\ governor'.current_freq =
           db_get(db', process_monitor'.current_process[1])[1].optimal_freq

LearningToApplied == governor.mode = "Learning" /\ governor'.mode = "Applied"

C10_OnlyAfterWindowStep ==
    LearningToApplied =>
        (learning_done(governor) /\ is_process_stable(process_monitor))

\* C10 (as stated): the governor goes from Learning to Applied only when the
\* learning window has elapsed since the mode started and the tracked
\* process has been stable for PROCESS_STABILITY_SECS; nothing else moves it
\* from Learning to Applied.
C10_OnlyAfterWindow == [][C10_OnlyAfterWindowStep]_vars

C10_LearningToAppliedStep ==
    LearningToApplied => (FinalizationWasDue \/ SwitchedToKnownProcess)

\* C10 (amended): the governor goes from Learning to Applied in two ways
\* only: by the finalization, when the learning window has elapsed and the
\* tracked process, still the one reported, has been stable for
\* PROCESS_STABILITY_SECS; or at once, whatever the time spent learning, when
\* the process monitor reports another process that has a stored profile,
\* whose frequency is then applied.
C10_LearningToApplied == [][C10_LearningToAppliedStep]_vars

\* GameA, which had no profile and was the only process ever listed, has
\* just been finalized: it was stable, and Applied has just been entered
C10_Witness ==
    /\ pa_pc = "loop"
    /\ governor.mode = "Applied"
    /\ governor.mode_start <= MaxAdvance
    /\ is_process_stable(process_monitor)
    /\ current_tracked_process = <<GameA>>
    /\ process_monitor.last_cycles = {GameA}
    /\ db_get(db, GameA) # <<>>


\* ------------------------------------------------------------------------
\* Finalization (SpecFinalize)
\* ------------------------------------------------------------------------
Finalized == pa_pc = "finalized" /\ last_call # <<>>
\* the statistics the finalization was called with, and what it returned
FinalizedStats == last_call[1].args.stats
FinalizedResult == last_call[1].result
EnoughSamples(stat) == stat.n >= MinLoadSamples

\* C11: the finalization never returns a frequency with fewer than 5
\* recorded load samples; when no frequency has 5 it returns absent, no
\* profile is stored or written and the governor stays in its learning mode.
C11_MinSamples ==
    Finalized =>
        /\ FinalizedResult # <<>> =>
               EnoughSamples(FinalizedStats[FinalizedResult[1].optimal_freq])
        /\ (\A f \in FreqGrid : ~EnoughSamples(FinalizedStats[f])) =>
               /\ FinalizedResult = <<>>
               /\ db = NoProfiles
               /\ db_file = NoProfiles
               /\ governor.mode \in {"Learning", "Reevaluating"}
               /\ governor.learning_stats # <<>>

\* a frequency is returned although another one, with fewer than 5 samples,
\* has a strictly better score
C11_Witness ==
    /\ Finalized
    /\ FinalizedResult # <<>>
    /\ \E f \in FreqGrid :
          /\ FinalizedStats[f].n > 0
          /\ ~EnoughSamples(FinalizedStats[f])
          /\ ScoreLess(FinalizedResult[1].comfort_score,
                       comfort_score(FinalizedStats[f]))

\* the frequencies of the finalized statistics with at least 5 recorded samples
QualifyingFreqs == {f \in FreqGrid : EnoughSamples(FinalizedStats[f])}

\* the qualifying frequencies whose comfort score no qualifying one exceeds
BestFreqs ==
    {f \in QualifyingFreqs :
        \A g \in QualifyingFreqs :
            ~ScoreLess(comfort_score(FinalizedStats[f]),
                       comfort_score(FinalizedStats[g]))}

\* C12: finalization returns a frequency of maximal comfort score among those
\* with at least 5 recorded samples, and the lowest of them when several share
\* the maximal score
C12_BestLowest ==
    Finalized /\ FinalizedResult # <<>> =>
        /\ FinalizedResult[1].optimal_freq \in BestFreqs
        /\ \A f \in BestFreqs : FinalizedResult[1].optimal_freq <= f

\* ------------------------------------------------------------------------
\* What an iteration observed (SpecScan)
\* ------------------------------------------------------------------------
\* the last iteration called collect_gpu_processes
Scanned ==
    /\ last_call # <<>>
    /\ last_call[1].args.elapsed >= PROCESS_UPDATE_INTERVAL_SECS
LastScan == last_call[1].args.scan
LastElapsed == last_call[1].args.elapsed
TrackedBefore == last_call[1].args.tracked
ModeBefore == last_call[1].args.mode

\* the scan lists processes, all of them with an excluded basename
OnlyExcluded(scan) ==
    /\ Len(scan) > 0
    /\ \A i \in 1 .. Len(scan) : Basename(scan[i].name) \in EXCLUDED_PROCESSES

AtMinimum ==
    /\ governor.current_freq = MIN_FREQ_MHZ
    /\ pa_pp_file = [vc |-> <<MIN_FREQ_MHZ, interpolate_voltage(MIN_FREQ_MHZ)>>,
                     uncommitted |-> FALSE]

\* C13: the tracked process never has an excluded basename, whatever its
\* utilization; after a scan that lists only excluded processes while no
\* process is tracked, the tracked process is still empty, the governor still
\* Idle and the frequency still the minimum
C13_ExcludedNeverTracked ==
    /\ current_tracked_process # <<>> =>
          Basename(current_tracked_process[1]) \notin EXCLUDED_PROCESSES
    /\ process_monitor.current_process # <<>> =>
          Basename(process_monitor.current_process[1]) \notin EXCLUDED_PROCESSES
    /\ (Scanned /\ OnlyExcluded(LastScan) /\ TrackedBefore = <<>>) =>
          /\ current_tracked_process = <<>>
          /\ governor.mode = "Idle"
          /\ AtMinimum

\* the compositor alone used the GPU, above MIN_GPU_USAGE_PERCENT
C13_Witness ==
    /\ Scanned
    /\ LastScan = <<[name |-> Kwin, advance |-> MaxCycles]>>
    /\ UsageAtLeastMin(MaxCycles, LastElapsed)
    /\ TrackedBefore = <<>>
    /\ current_tracked_process = <<>>
    /\ pa_pc = "loop"

\* no process of the scan is non-excluded with a utilization of at least
\* MIN_GPU_USAGE_PERCENT
NoActive(scan, elapsed) ==
    \A i \in 1 .. Len(scan) :
        \/ Basename(scan[i].name) \in EXCLUDED_PROCESSES
        \/ scan[i].advance * CyclePercent < MIN_GPU_USAGE_PERCENT * elapsed

\* C16: when a scan finds no active non-excluded process while a process is
\* tracked, the governor is Idle with current_freq at the minimum after that
\* iteration and, unless a write to the overclock file failed, the minimum is
\* actuated and nothing is tracked; while the loop runs in Idle the frequency
\* is the minimum
C16_IdleAtMinimum ==
    /\ (Scanned /\ TrackedBefore # <<>> /\ NoActive(LastScan, LastElapsed)) =>
          /\ governor.mode = "Idle"
          /\ governor.current_freq = MIN_FREQ_MHZ
          /\ pa_pc = "loop" => (current_tracked_process = <<>> /\ AtMinimum)
    /\ (governor.mode = "Idle" /\ pa_pc = "loop") =>
          (current_tracked_process = <<>> /\ AtMinimum)

\* the game with an applied profile went away and left the compositor
C16_Witness ==
    /\ Scanned
    /\ TrackedBefore = <<GameA>>
    /\ ModeBefore = "Applied"
    /\ LastScan = <<[name |-> Kwin, advance |-> MaxCycles]>>
    /\ pa_pc = "loop"
    /\ governor.mode = "Idle"
    /\ current_tracked_process = <<>>

\* ------------------------------------------------------------------------
\* The monitor's switching rule (SpecMonitor)
\* ------------------------------------------------------------------------
\* entry i of the scan is a non-excluded process with a utilization of at
\* least MIN_GPU_USAGE_PERCENT
ActiveEntry(scan, elapsed, i) ==
    /\ Basename(scan[i].name) \notin EXCLUDED_PROCESSES
    /\ scan[i].advance * CyclePercent >= MIN_GPU_USAGE_PERCENT * elapsed

\* the cycles of process name in the scan (of its first entry), 0 when absent;
\* utilizations of one scan compare as the cycles do
CyclesOf(scan, name) ==
    IF \E i \in 1 .. Len(scan) : scan[i].name = name
    THEN scan[CHOOSE i \in 1 .. Len(scan) :
                 /\ scan[i].name = name
                 /\ \A j \in 1 .. i - 1 : scan[j].name # name].advance
    ELSE 0

\* q is a highest-utilization active process of the scan and its utilization
\* is at least PROCESS_SWITCH_RATIO times that of name
SwitchAllowed(scan, elapsed, q, name) ==
    \E i \in 1 .. Len(scan) :
        /\ scan[i].name = q
        /\ ActiveEntry(scan, elapsed, i)
        /\ \A j \in 1 .. Len(scan) :
              ActiveEntry(scan, elapsed, j) => scan[j].advance <= scan[i].advance
        /\ scan[i].advance >= PROCESS_SWITCH_RATIO * CyclesOf(scan, name)

\* C17: while P is tracked, a scan with some active non-excluded process
\* leaves P tracked, or makes a different process Q the tracked one, and then
\* Q is the highest-utilization active non-excluded process and has at least
\* PROCESS_SWITCH_RATIO times P's utilization in the scan (0 when P is absent)
C17_SwitchRule ==
    (/\ pa_pc = "monitored"
     /\ Scanned
     /\ TrackedBefore # <<>>
     /\ ~NoActive(LastScan, LastElapsed)) =>
        /\ last_call[1].result # <<>>
        /\ process_monitor.current_process = last_call[1].result
        /\ last_call[1].result # TrackedBefore =>
              SwitchAllowed(LastScan, LastElapsed, last_call[1].result[1],
                            TrackedBefore[1])

\* GameB took over from GameA, which was in the scan with half its cycles
C17_Witness ==
    /\ pa_pc = "monitored"
    /\ Scanned
    /\ TrackedBefore = <<GameA>>
    /\ LastScan = <<[name |-> GameA, advance |-> 1], [name |-> GameB, advance |-> 2]>>
    /\ process_monitor.current_process = <<GameB>>
    /\ process_monitor.process_start = 0

\* ------------------------------------------------------------------------
\* A process becomes the tracked process (SpecPA)
\* ------------------------------------------------------------------------
\* the overclock file holds freq and its voltage, committed
Actuated(pp, freq) ==
    pp = [vc |-> <<freq, interpolate_voltage(freq)>>, uncommitted |-> FALSE]

BecomesTracked ==
    /\ current_tracked_process' # current_tracked_process
    /\ current_tracked_process' # <<>>

\* C14: in the iteration in which a process becomes the tracked process, the
\* governor enters Applied at the stored optimal_freq if the store has an
\* entry for its name and only then, and otherwise enters Learning at the
\* minimum frequency; the frequency is written to the overclock file in that
\* iteration
C14_BecomesTrackedStep ==
    BecomesTracked =>
        LET q == current_tracked_process'[1]
        IN /\ Basename(q) \notin EXCLUDED_PROCESSES
           /\ (governor'.mode = "Applied") = (db[q] # <<>>)
           /\ IF db[q] # <<>>
              THEN /\ governor'.current_freq = db[q][1].optimal_freq
                   /\ Actuated(pa_pp_file', db[q][1].optimal_freq)
              ELSE /\ governor'.mode = "Learning"
                   /\ governor'.current_freq = MIN_FREQ_MHZ
                   /\ Actuated(pa_pp_file', MIN_FREQ_MHZ)
C14_LoadOrLearn == [][C14_BecomesTrackedStep]_vars

\* a process with a stored profile became the tracked process in the last
\* iteration, after another process had been seen
C14_Witness ==
    /\ pa_pc = "loop"
    /\ current_tracked_process = <<GameB>>
    /\ process_monitor.process_start = 1
    /\ GameA \in process_monitor.last_cycles
    /\ db[GameB] # <<>>
    /\ governor.mode = "Applied"
    /\ governor.mode_start = 1
    /\ governor.current_freq = MAX_FREQ_MHZ

\* ------------------------------------------------------------------------
\* The Applied branch (SpecApplied)
\* ------------------------------------------------------------------------
LeftApplied ==
    /\ pa_pc = "applied_done"
    /\ last_call # <<>>
    /\ last_call[1].result.mode = "Reevaluating"
DecisionHistory == last_call[1].args.history

\* the average of the history is above high percent or below low percent
AverageOutside(h, low, high) ==
    \/ SumSeq(h) > high * Len(h) * SAMPLE_WINDOW_SIZE
    \/ SumSeq(h) < low * Len(h) * SAMPLE_WINDOW_SIZE

\* the history is full, the process stable, and the re-evaluation starts at
\* the stored frequency
FullStableFromStored ==
    /\ Len(DecisionHistory) = SATURATION_HISTORY_SIZE
    /\ last_call[1].args.since >= PROCESS_STABILITY_SECS
    /\ last_call[1].result.freq = last_call[1].args.stored
    /\ governor.current_freq = last_call[1].args.stored

\* C15: the governor leaves Applied for Re-evaluating only with a full
\* saturation history whose average load is above 90 % or below 50 % and
\* with a tracked process that has been stable for PROCESS_STABILITY_SECS;
\* the re-evaluation starts from the stored frequency
C15_Leaves90_50 ==
    LeftApplied => FullStableFromStored /\ AverageOutside(DecisionHistory, 50, 90)

\* C15, with the thresholds of lib.rs: above 80 % or below 40 %
C15_Leaves80_40 ==
    LeftApplied => FullStableFromStored /\ AverageOutside(DecisionHistory, 40, 80)

\* a re-evaluation was started on an average load between 80 % and 90 %
C15_Witness ==
    /\ LeftApplied
    /\ ~AverageOutside(DecisionHistory, 50, 90)
    /\ governor.mode = "Reevaluating"

\* ------------------------------------------------------------------------
\* A learning phase is interrupted (SpecSwitch)
\* ------------------------------------------------------------------------
IterationDone == pa_pc \in {"switched", "exited"} /\ last_call # <<>>
DbBefore == last_call[1].args.db
Partial == last_call[1].args.partial

\* the monitor reported another process than the tracked one
SwitchedToOther ==
    /\ IterationDone
    /\ last_call[1].result # <<>>
    /\ last_call[1].result # last_call[1].args.tracked

\* C18: when the monitor reports Q while P is tracked and being learned or
\* re-evaluated, the store holds P's partial result under P's name if there
\* is one, and is otherwise as it was; Q's entry is untouched, Q's mode is
\* the one its entry before the iteration calls for, and the partial result
\* is in the store even when the write of Q's frequency fails
C18_SavedUnderOldName ==
    SwitchedToOther =>
        LET P == last_call[1].args.tracked[1]
            Q == last_call[1].result[1]
        IN /\ db[P] = IF Partial # <<>>
                      THEN <<[optimal_freq |-> Partial[1].optimal_freq]>>
                      ELSE DbBefore[P]
           /\ \A n \in ProcNames \ {P} : db[n] = DbBefore[n]
           /\ governor.mode = IF DbBefore[Q] # <<>> THEN "Applied" ELSE "Learning"
           /\ pa_pc = "switched" => current_tracked_process = <<Q>>

\* GameA, without a profile, was interrupted by GameB with a partial result
C18_Witness ==
    /\ SwitchedToOther
    /\ pa_pc = "switched"
    /\ Partial # <<>>
    /\ DbBefore[GameA] = <<>>
    /\ db[GameA] # <<>>
    /\ current_tracked_process = <<GameB>>

\* C19: a profile is created or overwritten in the store only for the tracked
\* process, and only when it has been the monitor's process for at least
\* PROCESS_STABILITY_SECS
C19_WrittenOnlyWhenStable ==
    IterationDone =>
        \A n \in ProcNames :
            db[n] # DbBefore[n] =>
                /\ last_call[1].args.tracked = <<n>>
                /\ last_call[1].args.since >= PROCESS_STABILITY_SECS

\* ------------------------------------------------------------------------
\* The profile store (SpecStore)
\* ------------------------------------------------------------------------
Stored == pa_pc = "stored" /\ last_call # <<>>
SetProfile == last_call[1].args.profile
StoreBefore == last_call[1].args.before

\* C20: after set(p), get(p.name) returns a profile with p's optimal_freq,
\* comfort_score and samples_count, whatever was stored under that name, and
\* the profiles under every other name are the ones stored before
C20_SetThenGet ==
    Stored =>
        /\ last_call[1].result # <<>>
        /\ last_call[1].result[1].optimal_freq = SetProfile.optimal_freq
        /\ last_call[1].result[1].comfort_score = SetProfile.comfort_score
        /\ last_call[1].result[1].samples_count = SetProfile.samples_count
        /\ DOMAIN last_call[1].result[1] =
               {"optimal_freq", "comfort_score", "samples_count"}
        /\ db[SetProfile.name] = last_call[1].result
        /\ \A n \in ProcNames \ {SetProfile.name} : db[n] = StoreBefore[n]

\* a profile replaced another one of the same name that differed in every
\* field, while another name had a profile
C20_Witness ==
    /\ Stored
    /\ StoreBefore[SetProfile.name] # <<>>
    /\ StoreBefore[SetProfile.name][1].optimal_freq # SetProfile.optimal_freq
    /\ StoreBefore[SetProfile.name][1].comfort_score # SetProfile.comfort_score
    /\ StoreBefore[SetProfile.name][1].samples_count # SetProfile.samples_count
    /\ \E n \in ProcNames \ {SetProfile.name} : db[n] # <<>>

\* ------------------------------------------------------------------------
\* Profiles across restarts (SpecPA)
\* ------------------------------------------------------------------------
\* the program starts again: the store is what the file holds
RestartLoadsFile ==
    (pa_pc = "exited" /\ pa_pc' = "loop") => db' = db_file

\* a write to the file leaves the file equal to the store
FileWrittenWhole == db_file' # db_file => db_file' = db'

\* while the program runs, the entry of a name changes only in an iteration
\* that starts with that name tracked
EntryChangesWhileTracked ==
    \A n \in ProcNames :
        (pa_pc = "loop" /\ db'[n] # db[n]) => current_tracked_process = <<n>>

\* a process whose entry is the one of the file becomes the tracked process:
\* the governor is Applied at the frequency of the file
FileProfileApplied ==
    BecomesTracked =>
        LET q == current_tracked_process'[1]
        IN (db_file[q] # <<>> /\ db[q] = db_file[q]) =>
              /\ governor'.mode = "Applied"
              /\ governor'.current_freq = db_file[q][1].optimal_freq
              /\ Actuated(pa_pp_file', db_file[q][1].optimal_freq)

\* C21: a profile written to the file is loaded by the next start, stays in
\* the store until its process is tracked, and the first time that process
\* becomes the tracked one the governor enters Applied at the stored
\* optimal_freq in that iteration, without a Learning phase
C21_PersistedProfileApplied ==
    [][RestartLoadsFile /\ FileWrittenWhole /\ EntryChangesWhileTracked
         /\ FileProfileApplied]_vars

\* GameA, whose profile only a learning phase can have written, has just
\* become the tracked process of a run that never saw GameB, and is Applied
C21_Witness ==
    /\ pa_pc = "loop"
    /\ current_tracked_process = <<GameA>>
    /\ process_monitor.process_start = 1
    /\ process_monitor.last_cycles = {GameA}
    /\ db_file[GameA] # <<>>
    /\ db[GameA] = db_file[GameA]
    /\ governor.mode = "Applied"
    /\ governor.mode_start = 1
    /\ governor.current_freq = db_file[GameA][1].optimal_freq

\* ------------------------------------------------------------------------
\* The profile store on a bad file and on a failed write (SpecStore)
\* ------------------------------------------------------------------------
Constructed == pa_pc = "store" /\ last_call # <<>>
DiskFound == last_call[1].args.disk
WriteFailed == Stored /\ ~last_call[1].args.write_ok

\* C22: constructing the store on an absent, unreadable or unparsable file
\* gives an empty store and no error; when the file write inside set fails,
\* set still returns, get returns the new profile from the map, and the other
\* entries of the map are as they were.
C22_BadFileAndFailedWrite ==
    /\ Constructed =>
          /\ last_call[1].result = "Self"
          /\ DiskFound.kind \in {"absent", "unreadable", "garbage"} => db = NoProfiles
    /\ WriteFailed =>
          /\ last_call[1].result = <<ProfileValue(SetProfile)>>
          /\ db[SetProfile.name] = <<ProfileValue(SetProfile)>>
          /\ \A n \in ProcNames \ {SetProfile.name} : db[n] = StoreBefore[n]
C22_Witness ==
    /\ WriteFailed
    /\ last_call[1].args.disk # <<>>
    /\ last_call[1].args.disk[1].kind = "unreadable"
    /\ last_call[1].args.disk[1].profiles # NoProfiles
    /\ StoreBefore = NoProfiles
    /\ db # NoProfiles
    /\ db_file = NoProfiles

\* ------------------------------------------------------------------------
\* The load windows (SpecWindow)
\* ------------------------------------------------------------------------
Capacity == last_call[1].args.capacity
Fed == last_call[1].args.fed
ActiveIn(q) == Cardinality({i \in 1 .. Len(q) : q[i]})
\* the last min(n, W) samples fed
LastFed == SubSeq(Fed, Len(Fed) - Min(Len(Fed), Capacity) + 1, Len(Fed))
SameFraction(a, b) == a[1] * b[2] = b[1] * a[2]

\* C23: after any sequence of add_sample calls the window holds at most W
\* samples, the oldest evicted first, and active_count is the number of
\* active samples it holds.
C23_WindowCount ==
    /\ Len(stats.samples) <= Capacity
    /\ stats.samples = LastFed
    /\ stats.active_count = ActiveIn(stats.samples)
C23_Witness ==
    /\ Len(Fed) > Capacity
    /\ Fed[1]
    /\ ~Fed[Len(Fed)]
    /\ Len(stats.samples) = Capacity
    /\ stats.active_count = 1
    /\ Capacity > 1

\* C24: after n samples, both windows report 100 * (active samples among the
\* last min(n, W) fed) / min(n, W), and 0 when n = 0; is_full holds exactly
\* when n >= W.
C24_PercentBusy ==
    LET expected == IF Len(Fed) = 0 THEN <<0, 1>>
                    ELSE <<100 * ActiveIn(LastFed), Min(Len(Fed), Capacity)>>
    IN /\ SameFraction(gpu_percent(stats), expected)
       /\ SameFraction(load_percent(load_monitor, Capacity), expected)
       /\ is_full(load_monitor, Capacity) <=> Len(Fed) >= Capacity
C24_Witness ==
    /\ Capacity = 3
    /\ Fed = <<TRUE, TRUE, FALSE, TRUE, FALSE>>
    /\ gpu_percent(stats) = <<100, 3>>
    /\ load_percent(load_monitor, Capacity) = <<100, 3>>
    /\ is_full(load_monitor, Capacity)

\* ------------------------------------------------------------------------
\* Utilization from cycle counters (SpecCycles)
\* ------------------------------------------------------------------------
AfterPrecedingScan == last_call[1].args.scans = 2
ThisScan == last_call[1].args.scan
PrecedingScan == last_call[1].args.preceding
ReportedBefore(pid) == \E j \in 1 .. Len(PrecedingScan) : PrecedingScan[j].pid = pid
TotalBefore(pid) ==
    PrecedingScan[CHOOSE j \in 1 .. Len(PrecedingScan) : PrecedingScan[j].pid = pid].total_cycles

\* C25: the delta behind the utilization of a process reported by a scan and
\* by the preceding scan is its total now minus its total in the preceding
\* scan, 0 when the counter went down; for any reported process whose
\* counter did not go down, no cycle counted before the preceding scan is in
\* the delta.
C25_DeltaSincePrecedingScan ==
    AfterPrecedingScan =>
        \A i \in 1 .. Len(ThisScan) :
            LET pid == ThisScan[i].pid
                delta == last_call[1].result[i].delta
            IN /\ ReportedBefore(pid) =>
                     delta = Max(0, ThisScan[i].total_cycles - TotalBefore(pid))
               /\ last_call[1].args.now[pid] >= last_call[1].args.then[pid] =>
                     delta <= last_call[1].args.now[pid] - last_call[1].args.then[pid]
\* two pids of one name, both reported by both scans
C25_SharedName ==
    /\ AfterPrecedingScan
    /\ last_call[1].args.names[1] = last_call[1].args.names[2]
    /\ Len(ThisScan) = 2 /\ Len(PrecedingScan) = 2
    /\ last_call[1].args.then = <<2, 1>>
    /\ last_call[1].args.now = <<2, 1>>
    /\ last_call[1].result[1].delta = 1

\* ------------------------------------------------------------------------
\* The safe-point table at startup (SpecSafePoints)
\* ------------------------------------------------------------------------
StartupDone == last_call[1].result # <<>>
ConfiguredPoints == last_call[1].args[1]
ParsedTable == last_call[1].result[1].table
\* the configured array is empty, gives a frequency twice, or gives a lower
\* voltage to a higher frequency
BadTable(array) ==
    \/ array = <<>>
    \/ \E i, j \in 1 .. Len(array) : i # j /\ array[i].frequency = array[j].frequency
    \/ \E i, j \in 1 .. Len(array) :
          array[i].frequency < array[j].frequency /\ array[i].voltage > array[j].voltage

\* C26: the control loop is reached only with a table that is non-empty,
\* holds the configured pairs with one voltage per frequency, and has
\* voltages non-decreasing in frequency; a configured table breaking one of
\* these ends startup with nothing written to the overclock file; an absent
\* table is replaced by 350 MHz -> 700 mV, 2000 MHz -> 1000 mV.
C26_SafePointsValidated ==
    /\ gov_pc = "run" =>
          /\ StartupDone
          /\ DOMAIN ParsedTable # {}
          /\ \A f \in DOMAIN ParsedTable, g \in DOMAIN ParsedTable :
                f < g => ParsedTable[f] <= ParsedTable[g]
          /\ last_call[1].args # <<>> =>
                /\ ~BadTable(ConfiguredPoints)
                /\ \A i \in 1 .. Len(ConfiguredPoints) :
                      /\ ConfiguredPoints[i].frequency \in DOMAIN ParsedTable
                      /\ ParsedTable[ConfiguredPoints[i].frequency] = ConfiguredPoints[i].voltage
    /\ (StartupDone /\ last_call[1].args # <<>> /\ BadTable(ConfiguredPoints)) =>
          /\ main_pc = "exited"
          /\ gov_pc = "off" /\ act_pc = "off"
          /\ pp_file = [vc |-> <<>>, uncommitted |-> FALSE]
    /\ (StartupDone /\ last_call[1].args = <<>>) =>
          /\ last_call[1].result[1].ok
          /\ ParsedTable = (350 :> 700) @@ (2000 :> 1000)
C26_Witness ==
    /\ StartupDone
    /\ gov_pc = "run"
    /\ last_call[1].args # <<>>
    /\ ConfiguredPoints = <<[frequency |-> 3, voltage |-> 850], [frequency |-> 2, voltage |-> 700]>>
    /\ ParsedTable = (2 :> 700) @@ (3 :> 850)

\* ------------------------------------------------------------------------
\* Adjustments while learning (SpecLearn)
\* ------------------------------------------------------------------------
LearnDone == pa_pc = "learn" /\ last_call # <<>>
Adjusted == LearnDone /\ last_call[1].result.adjusted
DecidedOn == last_call[1].args.history
FreqBefore == last_call[1].args.freq
FreqAfter == last_call[1].result.freq
AverageGE(h, t) == Len(h) > 0 /\ SumSeq(h) >= t * Len(h) * SAMPLE_WINDOW_SIZE
AverageLE(h, t) == Len(h) > 0 /\ SumSeq(h) <= t * Len(h) * SAMPLE_WINDOW_SIZE

\* C27: an adjustment made while learning or re-evaluating moves the
\* frequency by one FREQ_STEP_MHZ, less only when clamped, up with an average
\* load at or above the high threshold and down with one at or below the low
\* threshold, and stays within [MIN_FREQ_MHZ, MAX_FREQ_MHZ]; it comes at
\* least MIN_CHANGE_INTERVAL_SECS and at least LEARNING_HISTORY_SIZE new
\* load samples after the previous adjustment, all the history it decides
\* on being newer than that adjustment.
C27_LearningAdjustment ==
    Adjusted =>
        /\ FreqAfter # FreqBefore
        /\ FreqAfter >= MIN_FREQ_MHZ /\ FreqAfter <= MAX_FREQ_MHZ
        /\ FreqAfter > FreqBefore =>
              /\ AverageGE(DecidedOn, HIGH_LOAD_THRESHOLD)
              /\ FreqAfter = Min(FreqBefore + FREQ_STEP_MHZ, MAX_FREQ_MHZ)
        /\ FreqAfter < FreqBefore =>
              /\ AverageLE(DecidedOn, LOW_LOAD_THRESHOLD)
              /\ FreqAfter = Max(FreqBefore - FREQ_STEP_MHZ, MIN_FREQ_MHZ)
        /\ governor.load_history = <<>>
        /\ last_call[1].args.since # NoAdjustment =>
              /\ last_call[1].args.since >= MIN_CHANGE_INTERVAL_SECS
              /\ last_call[1].args.fresh >= LEARNING_HISTORY_SIZE
              /\ Len(DecidedOn) <= last_call[1].args.fresh
\* a second adjustment of the run, downward after the time of two iterations
C27_Witness ==
    /\ Adjusted
    /\ last_call[1].args.since = MIN_CHANGE_INTERVAL_SECS
    /\ last_call[1].args.fresh = LEARNING_HISTORY_SIZE
    /\ FreqBefore = MAX_FREQ_MHZ
    /\ FreqAfter = MAX_FREQ_MHZ - FREQ_STEP_MHZ
    /\ DecidedOn = <<0, 0>>

\* the most recent LEARNING_HISTORY_SIZE samples of the history decided on
RecentSamples ==
    SubSeq(DecidedOn, Len(DecidedOn) - LEARNING_HISTORY_SIZE + 1, Len(DecidedOn))

\* C28: while learning or re-evaluating, with the change interval passed and
\* LEARNING_HISTORY_SIZE samples in the history, the frequency goes up, goes
\* down or stays as the average of the most recent LEARNING_HISTORY_SIZE
\* samples alone says.
C28_RecentSamplesDecide ==
    (/\ LearnDone
     /\ last_call[1].args.last_change >= MIN_CHANGE_INTERVAL_SECS
     /\ Len(DecidedOn) >= LEARNING_HISTORY_SIZE) =>
        LET up == FreqBefore < MAX_FREQ_MHZ /\ AverageGE(RecentSamples, HIGH_LOAD_THRESHOLD)
            down == /\ ~up
                    /\ FreqBefore > MIN_FREQ_MHZ
                    /\ AverageLE(RecentSamples, LOW_LOAD_THRESHOLD)
        IN FreqAfter = IF up THEN Min(FreqBefore + FREQ_STEP_MHZ, MAX_FREQ_MHZ)
                       ELSE IF down THEN Max(FreqBefore - FREQ_STEP_MHZ, MIN_FREQ_MHZ)
                       ELSE FreqBefore
\* an old idle sample keeps the frequency down under a full recent load
C28_OldSampleCounts ==
    /\ LearnDone
    /\ last_call[1].args.last_change >= MIN_CHANGE_INTERVAL_SECS
    /\ FreqBefore = MIN_FREQ_MHZ
    /\ Len(DecidedOn) = LEARNING_HISTORY_SIZE + 1
    /\ DecidedOn[1] = 0
    /\ \A i \in 2 .. Len(DecidedOn) : DecidedOn[i] = 100 * SAMPLE_WINDOW_SIZE
    /\ FreqAfter = MIN_FREQ_MHZ

\* C29: a load sample recorded while learning or re-evaluating is appended
\* once to the statistics of the frequency in force, and to no other.
C29_SampleAppendedOnce ==
    (LearnDone /\ last_call[1].args.recorded) =>
        \A f \in FreqGrid :
            last_call[1].result.stats[f] =
                IF f = FreqBefore
                THEN fs_add_load_sample(last_call[1].args.stats[f], last_call[1].args.load)
                ELSE last_call[1].args.stats[f]
\* the iteration after a step down: the sample goes to the frequency left
\* and to the frequency in force
C29_StaleFrequency ==
    /\ LearnDone
    /\ last_call[1].args.recorded
    /\ FreqBefore = MIN_FREQ_MHZ
    /\ last_call[1].result.stats[MAX_FREQ_MHZ].n = last_call[1].args.stats[MAX_FREQ_MHZ].n + 1
    /\ last_call[1].result.stats[MIN_FREQ_MHZ].n = last_call[1].args.stats[MIN_FREQ_MHZ].n + 1

\* ------------------------------------------------------------------------
\* From learning to Idle (SpecSwitch)
\* ------------------------------------------------------------------------
Disappeared ==
    /\ IterationDone
    /\ last_call[1].args.tracked # <<>>
    /\ last_call[1].result = <<>>

\* C30: when the process being learned or re-evaluated disappears, the
\* governor is Idle without learning statistics, and the profiles in memory
\* and in the file are those of before the iteration.
C30_IdleKeepsStore ==
    Disappeared =>
        /\ governor.mode = "Idle"
        /\ governor.learning_stats = <<>>
        /\ db = DbBefore
        /\ db_file = DbBefore
\* statistics that finalize_learning would have made a profile of
C30_Witness ==
    /\ Disappeared
    /\ pa_pc = "switched"
    /\ Partial # <<>>
    /\ DbBefore[GameA] = <<>>
    /\ governor.mode = "Idle"
    /\ current_tracked_process = <<>>
    /\ db[GameA] = <<>>

\* ------------------------------------------------------------------------
\* Constant load (FairSpecChan: burst disabled, up_thresh 70, down_thresh 30)
\* ------------------------------------------------------------------------
NoFailure == gov_pc # "err" /\ act_pc # "err"
\* the last actuation wrote f and committed it
Written(f) ==
    /\ pp_file.vc # <<>>
    /\ pp_file.vc[1] = f
    /\ ~pp_file.uncommitted
\* the window holds active samples only / idle samples only
AllActive == stats.active_count = window_samples
AllIdle == Len(stats.samples) = window_samples /\ stats.active_count = 0
\* from some tick on every sample is active / idle
EverActive == <>[](active_run > 0)
EverIdle == <>[](active_run = 0)

\* C31 (rise): with every sample of the window active, a tick raises the
\* target by ramp_rate * sampling_interval / 1000, clamped at max_freq; if
\* from some tick on every sample is active and no read or write fails, the
\* governor's current frequency is eventually max_freq, written and
\* committed by the actuator.
C31_ActiveRisesToMax ==
    /\ [][GovTickStep /\ AllActive'
            => target_freq' = Min(target_freq + RampStep, max_freq * TargetScale)]_vars
    /\ ([]NoFailure /\ EverActive => <>(curr_freq = max_freq /\ Written(max_freq)))
C31_ActiveWitness ==
    /\ active_run >= window_samples
    /\ curr_freq = max_freq
    /\ target_freq = max_freq * TargetScale
    /\ Written(max_freq)

\* C31 (decay, the target and the governor's frequency): with every sample
\* of the window idle, a tick lowers the target by the same amount, clamped
\* at min_freq; if from some tick on every sample is idle and no read fails,
\* the governor's current frequency is eventually min_freq.
C31_IdleDecaysToMin ==
    /\ [][GovTickStep /\ AllIdle'
            => target_freq' = Max(target_freq - RampStep, min_freq * TargetScale)]_vars
    /\ ([]NoFailure /\ EverIdle => <>[](curr_freq = min_freq))

PublishStep == GovTickStep /\ sent'
WriteStep == act_pc = "write_vc" /\ act_pc' = "write_c"
\* the actuator holds a received value that it has not written yet
Holding == act_pc = "write_vc"

C33_PublicationChangesFrequency ==
    /\ [][sent' /\ gov_pc' = "run" => curr_freq' # curr_freq]_vars
    /\ [](last_call # <<>> /\ last_call[1].result # <<>>
             => last_call[1].result[1].direction \in {<<>>, <<"up">>, <<"down">>})
\* C33 in the ramp specifications, whose thresholds are fixed at
\* small_change 1 and significant_change 2
C33_FixedThresholds ==
    [][GovTickStep /\ sent' => curr_freq' # curr_freq]_vars

\* where the thresholds are positive, C33 holds
C33_PositiveThresholds ==
    [][(sent' /\ gov_pc' = "run" /\ last_call[1].result # <<>>
          /\ last_call[1].result[1].significant_change > 0)
            => curr_freq' # curr_freq]_vars
\* a publication of the frequency the governor already holds
C33_SameFrequencyPublished ==
    /\ sent
    /\ last_call # <<>> /\ last_call[1].result # <<>>
    /\ last_call[1].result[1].direction = <<"eq">>

C35_BoundsOrdered == ClampDefined
\* the governor thread died in the clamp of its first tick
C35_ClampPanics == gov_pc = "err" /\ ~ClampDefined /\ Len(stats.samples) = 1

\* ------------------------------------------------------------------------
\* The process-aware loop at the end of an iteration (SpecPA)
\* ------------------------------------------------------------------------
\* the loop is between two iterations
AtLoopEnd == pa_pc = "loop"
InLearningMode == governor.mode \in {"Learning", "Reevaluating"}

\* C36: at the end of every loop iteration the mode is Idle iff no process
\* is tracked, and learning statistics exist iff the mode is Learning or
\* Re-evaluating.
C36_ModeMatchesTracking ==
    AtLoopEnd =>
        /\ governor.mode = "Idle" <=> current_tracked_process = <<>>
        /\ governor.learning_stats # <<>> <=> InLearningMode
\* Applied after a finalization: a profile of the tracked process exists
\* that was not in the file found at startup
C36_Witness ==
    /\ AtLoopEnd
    /\ governor.mode = "Applied"
    /\ governor.learning_stats = <<>>
    /\ current_tracked_process = <<GameA>>
    /\ db[GameA] # <<>>

\* C37: whenever the governor is in Applied mode (between two iterations of
\* the loop), the profile store holds a profile for the tracked process and
\* current_freq is that profile's optimal_freq.
C37_AppliedMatchesProfile ==
    (AtLoopEnd /\ governor.mode = "Applied") =>
        /\ current_tracked_process # <<>>
        /\ db_get(db, current_tracked_process[1]) # <<>>
        /\ governor.current_freq =
               db_get(db, current_tracked_process[1])[1].optimal_freq
\* Applied at a frequency that is not the one the learning started from,
\* for a process that had no profile in the file found at startup
C37_Witness ==
    /\ AtLoopEnd
    /\ governor.mode = "Applied"
    /\ current_tracked_process = <<GameA>>
    /\ db[GameA] # <<>>
    /\ governor.current_freq = db[GameA][1].optimal_freq
    /\ governor.current_freq # MIN_FREQ_MHZ

\* C38: at the end of every loop iteration the frequency most recently
\* written to the overclock file, and committed, is governor.current_freq,
\* in every mode and across every mode transition, the start of a
\* re-evaluation included.
C38_FileMatchesGovernor ==
    /\ [](AtLoopEnd =>
            /\ pa_pp_file.vc # <<>>
            /\ pa_pp_file.vc[1] = governor.current_freq
            /\ ~pa_pp_file.uncommitted)
    /\ [][(AtLoopEnd /\ AtLoopEnd' /\ governor'.mode # governor.mode)
             => pa_pp_file'.vc[1] = governor'.current_freq]_vars
\* a re-evaluation has started from the profile's frequency
C38_Witness ==
    /\ AtLoopEnd
    /\ governor.mode = "Reevaluating"
    /\ governor.mode_start <= MaxAdvance
    /\ current_tracked_process # <<>>
    /\ pa_pp_file.vc[1] = governor.current_freq

\* every profile of a store is on the frequency grid
OnGrid(profiles) ==
    \A n \in DOMAIN profiles :
        profiles[n] # <<>> => profiles[n][1].optimal_freq \in FreqGrid

\* C39: the store found at startup being on the grid
\* {MIN_FREQ_MHZ + k * FREQ_STEP_MHZ} within [MIN_FREQ_MHZ, MAX_FREQ_MHZ],
\* every profile kept in memory or persisted is on the grid, and in Learning
\* or Re-evaluating current_freq is a key of the statistics map, as is the
\* frequency the statistics were last recorded under: no load sample is
\* dropped.
C39_OnGrid ==
    /\ OnGrid(db)
    /\ OnGrid(db_file)
    /\ (AtLoopEnd /\ InLearningMode) =>
          /\ governor.current_freq \in DOMAIN governor.learning_stats[1].stats
          /\ governor.learning_stats[1].current_freq \in
                 DOMAIN governor.learning_stats[1].stats \cup {NoFreq}
\* after a step up in a re-evaluation, samples recorded at both frequencies
C39_Witness ==
    /\ AtLoopEnd
    /\ governor.mode = "Reevaluating"
    /\ governor.current_freq # db_get(db, current_tracked_process[1])[1].optimal_freq
    /\ \A f \in FreqGrid : governor.learning_stats[1].stats[f].n > 0

\* ------------------------------------------------------------------------
\* The learning ends (FairSpecLearn: the tracked process stays the one the
\* process monitor reports, no write fails)
\* ------------------------------------------------------------------------
AppliedWithProfile ==
    /\ governor.mode = "Applied"
    /\ db_get(db, current_tracked_process[1]) # <<>>
    /\ db_file = db
    /\ governor.current_freq = db_get(db, current_tracked_process[1])[1].optimal_freq

\* C40: once the learning window has elapsed and the process is stable, the
\* governor eventually leaves Learning or Re-evaluating for Applied, with a
\* profile of the tracked process persisted; it does not remain in a
\* learning mode forever.
C40_LearningEnds ==
    /\ (InLearningMode /\ learning_done(governor) /\ is_process_stable(process_monitor))
           ~> AppliedWithProfile
    /\ ~<>[]InLearningMode
\* the learning of a process without a profile has ended
C40_Witness ==
    /\ pa_pc = "learn"
    /\ last_call # <<>>
    /\ last_call[1].args.mode = "Learning"
    /\ learning_done([mode_start |-> governor.mode_start + LEARNING_DURATION_SECS])
    /\ AppliedWithProfile
====
